---- MODULE Spec2Model ----
(***************************************************************************)
(* A model of the RUPP template pipeline of                                *)
(* backend/app/rupp_integration/rupp_processor.py (FixedRUPPProcessor).    *)
(* Python strings are TLA+ strings, read with Len, SubSeq and \o, so every *)
(* substring test, split, replace and regular expression of the source is  *)
(* computed character by character, as the source computes it.             *)
(***************************************************************************)
EXTENDS Naturals, Sequences, FiniteSets

(***************************************************************************)
(* Characters and the character classes of Python's str and re.            *)
(***************************************************************************)
UpperLetters == "ABCDEFGHIJKLMNOPQRSTUVWXYZ"

LowerLetters == "abcdefghijklmnopqrstuvwxyz"

DigitChars == "0123456789"

\* s[i:i+1], 1-based: "" outside the string
CharAt(s, i) == IF 1 <= i /\ i <= Len(s) THEN SubSeq(s, i, i) ELSE ""

CharsOf(s) == {CharAt(s, i) : i \in 1..Len(s)}

UpperSet == CharsOf(UpperLetters)

LowerSet == CharsOf(LowerLetters)

DigitSet == CharsOf(DigitChars)

IsUpper(c) == c \in UpperSet

IsLower(c) == c \in LowerSet

IsAlpha(c) == IsUpper(c) \/ IsLower(c)

IsDigit(c) == c \in DigitSet

\* \w of a str pattern: alphanumeric or the underscore
IsWordChar(c) == IsAlpha(c) \/ IsDigit(c) \/ c = "_"

\* \s, and what str.strip() and str.split() treat as whitespace
IsSpace(c) == c \in {" ", "\t", "\n", "\r", "\f"}

LowerChar(c) ==
    IF IsUpper(c)
    THEN CharAt(LowerLetters, CHOOSE i \in 1..Len(UpperLetters) : CharAt(UpperLetters, i) = c)
    ELSE c

(***************************************************************************)
(* str methods.                                                            *)
(***************************************************************************)
Min(S) == CHOOSE x \in S : \A y \in S : x <= y

\* ''.join(pieces[lo..hi]), halving the range
RECURSIVE ConcatRange(_, _, _)
ConcatRange(pieces, lo, hi) ==
    IF lo > hi THEN ""
    ELSE IF lo = hi THEN pieces[lo]
    ELSE LET mid == (lo + hi) \div 2
         IN  ConcatRange(pieces, lo, mid) \o ConcatRange(pieces, mid + 1, hi)

\* ''.join(pieces)
Concat(pieces) == ConcatRange(pieces, 1, Len(pieces))

\* s.lower()
Lower(s) == Concat([i \in 1..Len(s) |-> LowerChar(CharAt(s, i))])

\* s[n:]
DropFrom(s, n) == IF n >= Len(s) THEN "" ELSE SubSeq(s, n + 1, Len(s))

StartsWith(s, p) == Len(p) <= Len(s) /\ SubSeq(s, 1, Len(p)) = p

EndsWith(s, p) == Len(p) <= Len(s) /\ SubSeq(s, Len(s) - Len(p) + 1, Len(s)) = p

StartsWithAny(s, ps) == \E i \in 1..Len(ps) : StartsWith(s, ps[i])

\* s[i:].startswith(w)
MatchAt(s, i, w) ==
    /\ i + Len(w) - 1 <= Len(s)
    /\ CharAt(s, i) = CharAt(w, 1)
    /\ SubSeq(s, i, i + Len(w) - 1) = w

\* w in s
Contains(s, w) == \E i \in 1..(Len(s) + 1) : MatchAt(s, i, w)

ContainsAny(s, ws) == \E k \in 1..Len(ws) : Contains(s, ws[k])

\* s.find(w), 1-based; 0 when w does not occur
Find(s, w) ==
    LET hits == {i \in 1..(Len(s) + 1) : MatchAt(s, i, w)}
    IN  IF hits = {} THEN 0 ELSE Min(hits)

\* s.replace(old, new), old non-empty: leftmost occurrences, not overlapping
RECURSIVE Replace(_, _, _)
Replace(s, old, new) ==
    LET i == Find(s, old)
    IN  IF i = 0 THEN s
        ELSE SubSeq(s, 1, i - 1) \o new \o Replace(DropFrom(s, i - 1 + Len(old)), old, new)

\* the length of the run of whitespace that starts at s[i]
RECURSIVE SpaceRunAt(_, _)
SpaceRunAt(s, i) == IF IsSpace(CharAt(s, i)) THEN 1 + SpaceRunAt(s, i + 1) ELSE 0

\* the length of the run of whitespace that ends at s[i]
RECURSIVE SpaceRunBefore(_, _)
SpaceRunBefore(s, i) == IF IsSpace(CharAt(s, i)) THEN 1 + SpaceRunBefore(s, i - 1) ELSE 0

\* the length of the run of whitespace s starts with
SpaceRun(s) == SpaceRunAt(s, 1)

\* s.lstrip()
LStrip(s) == DropFrom(s, SpaceRun(s))

\* s.rstrip()
RStrip(s) == SubSeq(s, 1, Len(s) - SpaceRunBefore(s, Len(s)))

\* s.strip()
Strip(s) == RStrip(LStrip(s))

\* s.split(sep), sep non-empty: every part, the empty ones included
RECURSIVE SplitOn(_, _)
SplitOn(s, sep) ==
    LET i == Find(s, sep)
    IN  IF i = 0 THEN <<s>>
        ELSE <<SubSeq(s, 1, i - 1)>> \o SplitOn(DropFrom(s, i + Len(sep) - 1), sep)

\* the end of the run of non-whitespace that starts at s[i]
RECURSIVE WordEnd(_, _)
WordEnd(s, i) == IF i < Len(s) /\ ~IsSpace(CharAt(s, i + 1)) THEN WordEnd(s, i + 1) ELSE i

\* the words of s.split(), the maximal runs of non-whitespace, as a set
SplitWords(s) ==
    {SubSeq(s, i, WordEnd(s, i)) :
        i \in {j \in 1..Len(s) : ~IsSpace(CharAt(s, j)) /\ (j = 1 \/ IsSpace(CharAt(s, j - 1)))}}

\* sep.join(parts)
RECURSIVE Join(_, _)
Join(parts, sep) ==
    IF parts = <<>> THEN ""
    ELSE IF Len(parts) = 1 THEN parts[1]
    ELSE parts[1] \o sep \o Join(Tail(parts), sep)

\* s.isdigit()
IsDigitStr(s) == s # "" /\ \A i \in 1..Len(s) : IsDigit(CharAt(s, i))

\* any(char.isalpha() for char in s)
HasAlpha(s) == \E i \in 1..Len(s) : IsAlpha(CharAt(s, i))

\* the list as it is, repeats and all
KeepRepeats(xs) == xs

\* list(dict.fromkeys(xs)): the first occurrence of each element, in order
RECURSIVE DedupKeepFirst(_)
DedupKeepFirst(xs) ==
    IF xs = <<>> THEN <<>>
    ELSE LET init == DedupKeepFirst(SubSeq(xs, 1, Len(xs) - 1))
             last == xs[Len(xs)]
         IN  IF \E i \in 1..Len(init) : init[i] = last THEN init ELSE Append(init, last)

(***************************************************************************)
(* apply_preprocessing                                                     *)
(***************************************************************************)
Contractions ==
    << <<"can't", "cannot">>, <<"won't", "will not">>, <<"don't", "do not">>,
       <<"isn't", "is not">>, <<"aren't", "are not">>, <<"wasn't", "was not">>,
       <<"weren't", "were not">>, <<"haven't", "have not">>, <<"hasn't", "has not">>,
       <<"wouldn't", "would not">>, <<"shouldn't", "should not">>,
       <<"couldn't", "could not">> >>

\* for contraction, expansion in contractions.items(): text = text.replace(...)
RECURSIVE ExpandContractions(_, _)
ExpandContractions(s, k) ==
    IF k > Len(Contractions) THEN s
    ELSE ExpandContractions(Replace(s, Contractions[k][1], Contractions[k][2]), k + 1)

\* the character class with the question mark left in it
KeptCharOrQuestionMark(c) == IsWordChar(c) \/ IsSpace(c) \/ c \in {".", ",", "-", "?"}

\* re.sub(r'[^\w\s\.,\-]', '', text)
KeptChar(c) == IsWordChar(c) \/ IsSpace(c) \/ c \in {".", ",", "-"}

StripPunctuation(s) ==
    Concat([i \in 1..Len(s) |-> IF KeptChar(CharAt(s, i)) THEN CharAt(s, i) ELSE ""])

\* re.sub(r'\s+', ' ', text): one space for each maximal run of whitespace
CollapseWhitespace(s) ==
    Concat([i \in 1..Len(s) |->
              IF ~IsSpace(CharAt(s, i)) THEN CharAt(s, i)
              ELSE IF i > 1 /\ IsSpace(CharAt(s, i - 1)) THEN ""
              ELSE " "])

\* the steps with the whitespace collapsed before the characters are stripped
PreprocessCollapsingFirst(text) ==
    LET t1 == Lower(text)
        t2 == Replace(t1, "&", "and")
        t3 == ExpandContractions(t2, 1)
        t4 == CollapseWhitespace(t3)
    IN  Strip(StripPunctuation(t4))

apply_preprocessing(text) ==
    LET t1 == Lower(text)
        t2 == Replace(t1, "&", "and")
        t3 == ExpandContractions(t2, 1)
        t4 == StripPunctuation(t3)
    IN  Strip(CollapseWhitespace(t4))

(***************************************************************************)
(* identify_actors_enhanced                                                *)
(***************************************************************************)
valid_actors == {"system", "user", "administrator", "librarian", "member", "guest"}

\* re.sub(r'[^a-z]', '', word)
KeepLowerLetters(s) ==
    Concat([i \in 1..Len(s) |-> IF IsLower(CharAt(s, i)) THEN CharAt(s, i) ELSE ""])

\* the loop over description.lower().split()
WordActors(description) ==
    LET words == SplitWords(Lower(description))
    IN  {KeepLowerLetters(word) : word \in words} \cap valid_actors

\* the keyword mapping that reports the abbreviation it found
KeywordActorsAbbreviated(description) ==
    LET text_lower == Lower(description)
    IN  {a \in {"system", "user", "member", "librarian", "guest", "administrator", "admin"} :
            Contains(text_lower, a)}

\* the keyword mapping without its first test, the one for 'system'
KeywordActorsButSystem(description) ==
    LET text_lower == Lower(description)
    IN  {a \in {"user", "member", "librarian", "guest"} : Contains(text_lower, a)}
        \cup (IF Contains(text_lower, "administrator") \/ Contains(text_lower, "admin")
              THEN {"administrator"} ELSE {})

\* the direct keyword mapping on text_lower
KeywordActors(description) ==
    LET text_lower == Lower(description)
    IN  {a \in {"system", "user", "member", "librarian", "guest"} : Contains(text_lower, a)}
        \cup (IF Contains(text_lower, "administrator") \/ Contains(text_lower, "admin")
              THEN {"administrator"} ELSE {})

\* a < b in Python's order of str, by code point
RECURSIVE StrLess(_, _)
StrLess(a, b) ==
    IF b = "" THEN FALSE
    ELSE IF a = "" THEN TRUE
    ELSE IF CharAt(a, 1) = CharAt(b, 1) THEN StrLess(DropFrom(a, 1), DropFrom(b, 1))
    ELSE LET pos(c) == CHOOSE i \in 1..Len(LowerLetters) : CharAt(LowerLetters, i) = c
         IN  pos(CharAt(a, 1)) < pos(CharAt(b, 1))

\* sorted(list(S)) for a set S of lowercase words
RECURSIVE SortedList(_)
SortedList(S) ==
    IF S = {} THEN <<>>
    ELSE LET least == CHOOSE x \in S : \A y \in S \ {x} : StrLess(x, y)
         IN  <<least>> \o SortedList(S \ {least})

identify_actors_enhanced(description) ==
    SortedList(WordActors(description) \cup KeywordActors(description))

(***************************************************************************)
(* extract_sentences_comprehensive                                         *)
(***************************************************************************)
MinSentenceLen == 3

\* the lookbehinds of r'(?<!\w\.\w.)(?<![A-Z][a-z]\.)(?<=\.|\?|\!)\s+' at the
\* whitespace character s[p]
SplitPoint(s, p) ==
    /\ p >= 2
    /\ IsSpace(CharAt(s, p))
    /\ CharAt(s, p - 1) \in {".", "?", "!"}
    /\ ~(/\ p >= 5
         /\ IsWordChar(CharAt(s, p - 4))
         /\ CharAt(s, p - 3) = "."
         /\ IsWordChar(CharAt(s, p - 2))
         /\ CharAt(s, p - 1) # "\n")
    /\ ~(/\ p >= 4
         /\ IsUpper(CharAt(s, p - 3))
         /\ IsLower(CharAt(s, p - 2))
         /\ CharAt(s, p - 1) = ".")

\* re.split of that pattern: the pieces of s from position start on; a match
\* takes the whole run of whitespace that begins at the split point
RECURSIVE SplitSentencesFrom(_, _)
SplitSentencesFrom(s, start) ==
    LET points == {p \in start..Len(s) : SplitPoint(s, p)}
    IN  IF points = {} THEN <<DropFrom(s, start - 1)>>
        ELSE LET p == Min(points)
                 next == p + SpaceRunAt(s, p)
             IN  <<SubSeq(s, start, p - 1)>> \o SplitSentencesFrom(s, next)

SplitSentences(s) == SplitSentencesFrom(s, 1)

StripEach(parts) == [i \in 1..Len(parts) |-> Strip(parts[i])]

LongEnough(s) == Len(s) > MinSentenceLen

\* [p.strip() for p in parts if len(p.strip()) > 3]
StrippedLongParts(parts) == SelectSeq(StripEach(parts), LongEnough)

RECURSIVE Flatten(_)
Flatten(xss) == IF xss = <<>> THEN <<>> ELSE Head(xss) \o Flatten(Tail(xss))

action_verbs ==
    <<"clicks", "enters", "displays", "shows", "checks", "validates", "asks", "opens",
      "closes", "selects", "returns", "issues", "reserves", "adds", "removes", "updates",
      "stores", "retrieves", "prompts">>

\* the subject chosen in alphabetical order of the keywords
CurrentSubjectAlphabetical(first_part) ==
    IF Contains(first_part, "administrator") THEN "The administrator"
    ELSE IF Contains(first_part, "guest") THEN "The guest"
    ELSE IF Contains(first_part, "librarian") THEN "The librarian"
    ELSE IF Contains(first_part, "member") THEN "The member"
    ELSE IF Contains(first_part, "system") THEN "The system"
    ELSE IF Contains(first_part, "user") THEN "The user"
    ELSE ""

\* the subject carried into the later parts of an 'and' split; "" is None
CurrentSubject(first_part) ==
    IF Contains(first_part, "system") THEN "The system"
    ELSE IF Contains(first_part, "member") THEN "The member"
    ELSE IF Contains(first_part, "user") THEN "The user"
    ELSE IF Contains(first_part, "librarian") THEN "The librarian"
    ELSE IF Contains(first_part, "administrator") THEN "The administrator"
    ELSE IF Contains(first_part, "guest") THEN "The guest"
    ELSE ""

AndPart(part, i, current_subject) ==
    IF i = 1 THEN part
    ELSE IF current_subject # "" /\ ~StartsWithAny(Lower(part), <<"the ", "a ", "an ">>)
    THEN current_subject \o " " \o part
    ELSE part

\* the candidates of the compound split on ' and '
AndSplits(sentence) ==
    IF Contains(Lower(sentence), " and ") /\ ContainsAny(Lower(sentence), action_verbs)
    THEN LET and_parts == SplitOn(sentence, " and ")
             subject == CurrentSubject(Lower(and_parts[1]))
             stripped == StripEach(and_parts)
             kept == SelectSeq([i \in 1..Len(stripped) |-> i],
                               LAMBDA i : Len(stripped[i]) > MinSentenceLen)
         IN  [k \in 1..Len(kept) |-> AndPart(stripped[kept[k]], kept[k], subject)]
    ELSE <<>>

SemicolonSplits(sentence) ==
    IF Contains(sentence, ";") THEN StrippedLongParts(SplitOn(sentence, ";")) ELSE <<>>

ThenSplits(sentence) ==
    IF Contains(Lower(sentence), " then ")
    THEN StrippedLongParts(SplitOn(sentence, " then "))
    ELSE <<>>

\* the iteration with the parts of a split in the place of the sentence
EnhancedSentencesReplacing(sentence) ==
    LET parts == SemicolonSplits(sentence) \o AndSplits(sentence) \o ThenSplits(sentence)
    IN  IF parts = <<>> THEN <<sentence>> ELSE parts

\* one iteration of the loop that fills enhanced_sentences
EnhancedSentences(sentence) ==
    <<sentence>> \o SemicolonSplits(sentence) \o AndSplits(sentence) \o ThenSplits(sentence)

skip_phrases ==
    <<"the details include", "details include", "include the total", "total number of",
      "date of issue", "return date", "fine to be paid">>

\* the final filter without the list of phrases to skip
KeepSentenceWithAnyPhrase(sentence) ==
    /\ Len(sentence) > MinSentenceLen
    /\ ~IsDigitStr(sentence)
    /\ HasAlpha(sentence)

\* the final filter, on the stripped sentence
KeepSentence(sentence) ==
    /\ Len(sentence) > MinSentenceLen
    /\ ~IsDigitStr(sentence)
    /\ HasAlpha(sentence)
    /\ ~ContainsAny(Lower(sentence), skip_phrases)

\* the split on sentence ends alone, with no rule on the length of a sentence
SentencesOfAnyLength(text) ==
    SelectSeq(StripEach(SplitSentences(text)), LAMBDA sentence : sentence # "")

extract_sentences_comprehensive(text) ==
    LET sentences == StrippedLongParts(SplitSentences(text))
        enhanced_sentences == Flatten([i \in 1..Len(sentences) |-> EnhancedSentences(sentences[i])])
        unique_sentences == DedupKeepFirst(enhanced_sentences)
    IN  SelectSeq(StripEach(unique_sentences), KeepSentence)

(***************************************************************************)
(* The regular expressions of the template methods.                        *)
(***************************************************************************)
\* the first of alts that s starts with; "" when there is none
FirstPrefix(s, alts) ==
    IF StartsWithAny(s, alts)
    THEN alts[CHOOSE i \in 1..Len(alts) :
                /\ StartsWith(s, alts[i])
                /\ \A j \in 1..(i - 1) : ~StartsWith(s, alts[j])]
    ELSE ""

\* re.sub(r'^(the )?system (shall|should|will|can)', '', s)
StripSystemModal(s) ==
    LET t == IF StartsWith(s, "the system ") THEN DropFrom(s, 4) ELSE s
        rest == DropFrom(t, 7)
        modal == FirstPrefix(rest, <<"shall", "should", "will", "can">>)
    IN  IF StartsWith(t, "system ") /\ modal # "" THEN DropFrom(rest, Len(modal)) ELSE s

\* re.sub(r'(the )?system', '', s): every occurrence, leftmost first
RECURSIVE StripSystemMentions(_)
StripSystemMentions(s) ==
    LET i == Find(s, "system")
        start == IF i > 4 /\ SubSeq(s, i - 4, i - 1) = "the " THEN i - 4 ELSE i
    IN  IF i = 0 THEN s
        ELSE SubSeq(s, 1, start - 1) \o StripSystemMentions(DropFrom(s, i + 5))

\* re.sub(r'^(asks?|shows?|displays?|checks?)', r'\1', s): the match is put back
KeepLeadingVerb(s) == s

\* re.sub(r'^the (system|member|user|librarian|administrator|guest)', '', s)
StripLeadingActor(s) ==
    LET rest == DropFrom(s, 4)
        actor == FirstPrefix(rest, <<"system", "member", "user", "librarian",
                                     "administrator", "guest">>)
    IN  IF StartsWith(s, "the ") /\ actor # "" THEN DropFrom(rest, Len(actor)) ELSE s

\* re.sub(r'^(s\s|ing\s)', '', s)
StripVerbSuffix(s) ==
    IF StartsWith(s, "s") /\ IsSpace(CharAt(s, 2)) THEN DropFrom(s, 2)
    ELSE IF StartsWith(s, "ing") /\ IsSpace(CharAt(s, 4)) THEN DropFrom(s, 4)
    ELSE s

\* re.sub(r'^\s*the\s+', 'the ', s)
NormalizeLeadingThe(s) ==
    LET t == LStrip(s)
        run == SpaceRun(DropFrom(t, 3))
    IN  IF StartsWith(t, "the") /\ run >= 1 THEN "the " \o DropFrom(t, 3 + run) ELSE s

\* re.sub(r'^the\s+', '', s)
StripLeadingThe(s) ==
    LET run == SpaceRun(DropFrom(s, 3))
    IN  IF StartsWith(s, "the") /\ run >= 1 THEN DropFrom(s, 3 + run) ELSE s

\* re.sub(r'^(w1|w2|...)\s+', repl, s): the first alternative that the
\* whitespace can follow
LeadingWordSub(s, alts, repl) ==
    LET fits(i) == StartsWith(s, alts[i]) /\ SpaceRun(DropFrom(s, Len(alts[i]))) >= 1
    IN  IF \E i \in 1..Len(alts) : fits(i)
        THEN LET i == CHOOSE i \in 1..Len(alts) : fits(i) /\ \A j \in 1..(i - 1) : ~fits(j)
                 after == DropFrom(s, Len(alts[i]))
             IN  repl \o DropFrom(after, SpaceRun(after))
        ELSE s

\* re.sub(r'^(the\s+)?(system\s+)?', '', s)
StripTheSystem(s) ==
    LET t == StripLeadingThe(s)
        run == SpaceRun(DropFrom(t, 6))
    IN  IF StartsWith(t, "system") /\ run >= 1 THEN DropFrom(t, 6 + run) ELSE t

(***************************************************************************)
(* The template methods.                                                   *)
(***************************************************************************)
\* a fallback that falls off the end of the method: None, here ""
NoFallback(sentence) == ""

ConditionalFallback(sentence) == "The system shall handle the condition: " \o sentence \o "."

\* the Conditional sentence without the comma after the condition
ConditionalTextWithoutComma(if_part, then_part) ==
    IF then_part # ""
    THEN "If " \o if_part \o " then the system shall " \o then_part \o "."
    ELSE "If " \o if_part \o " then the system shall respond appropriately."

ConditionalText(if_part, then_part) ==
    IF then_part # ""
    THEN "If " \o if_part \o ", then the system shall " \o then_part \o "."
    ELSE "If " \o if_part \o ", then the system shall respond appropriately."

process_conditional_template(sentence) ==
    LET sentence_lower == Lower(sentence)
    IN  IF Contains(sentence_lower, "if") /\ Contains(sentence_lower, "then")
        THEN LET parts == SplitOn(sentence_lower, " then ")
             IN  IF Len(parts) < 2
                 THEN ConditionalFallback(sentence)  \* parts[1] raises, the except passes
                 ELSE LET if_part == Strip(Replace(parts[1], "if", ""))
                          then1 == Strip(StripSystemModal(Strip(parts[2])))
                          then2 == Strip(StripSystemMentions(then1))
                      IN  ConditionalText(if_part, KeepLeadingVerb(then2))
        ELSE IF Contains(sentence_lower, "if") /\ Contains(sentence, ",")
        THEN LET parts == SplitOn(sentence, ",")
                 if_part == Strip(Replace(Lower(parts[1]), "if", ""))
                 then0 == Strip(Join(Tail(parts), ","))
                 then1 == Strip(StripSystemModal(then0))
                 then2 == Strip(StripSystemMentions(then1))
             IN  ConditionalText(if_part, then2)
        ELSE ConditionalFallback(sentence)

\* the When template on the sentence as it came, its own 'when' kept
WhenTemplateKeepingCase(sentence) ==
    sentence \o ", the system shall be able to respond appropriately."

process_when_template(sentence) ==
    "When " \o Strip(DropFrom(sentence, 5)) \o ", the system shall be able to respond appropriately."

\* the action_verbs dict of process_system_capability_template, in insertion order
capability_verbs ==
    << <<"displays", "display">>, <<"display", "display">>, <<"shows", "display">>,
       <<"show", "display">>, <<"validates", "validate">>, <<"validate", "validate">>,
       <<"checks", "validate">>, <<"check", "validate">>, <<"processes", "process">>,
       <<"process", "process">>, <<"handles", "process">>, <<"handle", "process">>,
       <<"stores", "store">>, <<"store", "store">>, <<"saves", "store">>,
       <<"save", "store">>, <<"retrieves", "retrieve">>, <<"retrieve", "retrieve">>,
       <<"fetches", "retrieve">>, <<"fetch", "retrieve">>, <<"asks", "ask">>,
       <<"ask", "ask">>, <<"prompts", "prompt">>, <<"prompt", "prompt">>,
       <<"opens", "open">>, <<"open", "open">>, <<"closes", "close">>,
       <<"close", "close">>, <<"updates", "update">>, <<"update", "update">>,
       <<"enters", "accept">>, <<"enter", "accept">> >>

\* the verb-specific shaping of a non-empty object
ShapeObject(base_verb, after_verb) ==
    IF base_verb = "ask" \/ base_verb = "prompt"
    THEN (IF ~Contains(after_verb, "to") THEN "the user to " \o after_verb ELSE after_verb)
    ELSE IF base_verb = "display"
    THEN (IF ~StartsWith(after_verb, "the ") THEN "the " \o after_verb ELSE after_verb)
    ELSE IF base_verb = "validate"
    THEN (IF ~StartsWith(after_verb, "the ") /\ ~StartsWith(after_verb, "that ")
          THEN "the " \o after_verb ELSE after_verb)
    ELSE after_verb

\* the template without its lookup: the general capability requirement always
CapabilityTemplateWithoutLookup(sentence) ==
    "The system shall be able to "
        \o Strip(StripLeadingActor(Strip(Lower(sentence)))) \o "."

process_system_capability_template(sentence) ==
    LET sentence_lower == Strip(Lower(sentence))
        sentence_clean == Strip(StripLeadingActor(sentence_lower))
        found(k) == Contains(sentence_clean, capability_verbs[k][1])
    IN  IF \E k \in 1..Len(capability_verbs) : found(k)
        THEN LET k == CHOOSE k \in 1..Len(capability_verbs) :
                        found(k) /\ \A j \in 1..(k - 1) : ~found(j)
                 verb_variant == capability_verbs[k][1]
                 base_verb == capability_verbs[k][2]
                 verb_index == Find(sentence_clean, verb_variant)
                 after0 == Strip(DropFrom(sentence_clean, verb_index - 1 + Len(verb_variant)))
                 after1 == Strip(StripVerbSuffix(after0))
                 after_verb == NormalizeLeadingThe(after1)
             IN  IF after_verb # ""
                 THEN "The system shall be able to " \o base_verb \o " "
                        \o ShapeObject(base_verb, after_verb) \o "."
                 ELSE "The system shall be able to " \o base_verb \o " the required information."
        ELSE "The system shall be able to " \o sentence_clean \o "."

\* the article and noun-cue rule of process_user_action_template
WithArticle(after_actor) ==
    IF /\ ~StartsWithAny(after_actor, <<"the ", "a ", "an ", "their ", "his ", "her ">>)
       /\ ContainsAny(after_actor, <<"button", "page", "details", "information", "books">>)
    THEN "the " \o after_actor
    ELSE after_actor

process_user_action_template(sentence, actors) ==
    LET sentence_lower == Strip(Lower(sentence))
        sentence_clean == StripLeadingThe(sentence_lower)
        found(i) == actors[i] # "system" /\ Contains(sentence_clean, actors[i])
    IN  IF \E i \in 1..Len(actors) : found(i)
        THEN LET i == CHOOSE i \in 1..Len(actors) : found(i) /\ \A j \in 1..(i - 1) : ~found(j)
                 actor == actors[i]
                 actor_index == Find(sentence_clean, actor)
                 a0 == Strip(DropFrom(sentence_clean, actor_index - 1 + Len(actor)))
                 a1 == LeadingWordSub(a0, <<"can", "will", "should", "must", "may">>, "")
                 a2 == LeadingWordSub(a1, <<"clicks", "click">>, "click ")
                 a3 == LeadingWordSub(a2, <<"enters", "enter">>, "enter ")
                 a4 == LeadingWordSub(a3, <<"selects", "select">>, "select ")
                 a5 == LeadingWordSub(a4, <<"types", "type">>, "type ")
                 a6 == LeadingWordSub(a5, <<"views", "view">>, "view ")
                 after_actor == LeadingWordSub(a6, <<"browses", "browse">>, "browse ")
                 a7 == IF StartsWith(after_actor, "on ")
                       THEN Strip(DropFrom(after_actor, 3)) ELSE after_actor
             IN  IF after_actor # ""
                 THEN "The system shall provide " \o actor \o " with the ability to "
                        \o WithArticle(a7) \o "."
                 ELSE "The system shall provide " \o actor \o " with the required functionality."
        ELSE LET action == Strip(StripTheSystem(sentence_clean))
             IN  IF action # ""
                 THEN "The system shall provide users with the ability to " \o action \o "."
                 ELSE "The system shall provide users with the required functionality."

\* the first element of words, in list order, that s contains; "" when none
FirstContained(s, words) ==
    IF ContainsAny(s, words)
    THEN words[CHOOSE i \in 1..Len(words) :
                 Contains(s, words[i]) /\ \A j \in 1..(i - 1) : ~Contains(s, words[j])]
    ELSE ""

process_modal_template(sentence) ==
    LET sentence_lower == Lower(sentence)
        modal == FirstContained(sentence_lower,
                    <<"should", "must", "can", "will", "shall", "may", "could", "would">>)
    IN  IF modal # ""
        THEN "The system shall "
               \o Strip(DropFrom(sentence, Find(sentence_lower, modal) - 1 + Len(modal))) \o "."
        ELSE "The system shall be able to " \o sentence_lower \o "."

process_feature_template(sentence) ==
    LET feature_word == FirstContained(Lower(sentence),
                           <<"feature", "function", "capability", "service", "interface",
                             "component">>)
    IN  IF feature_word # ""
        THEN "The system shall provide the " \o feature_word \o " described as: " \o sentence \o "."
        ELSE "The system shall implement: " \o sentence \o "."

process_state_template(sentence) ==
    IF ContainsAny(Lower(sentence),
                   <<"available", "ready", "logged in", "valid", "correct", "stored", "retrieved">>)
    THEN "The system shall ensure that " \o Lower(sentence) \o "."
    ELSE "The system shall maintain the state: " \o sentence \o "."

process_validation_template(sentence) ==
    LET sentence_lower == Lower(sentence)
        validation_word == FirstContained(sentence_lower,
                              <<"validate", "check", "verify", "confirm", "authenticate">>)
    IN  IF validation_word # ""
        THEN "The system shall " \o validation_word \o " "
               \o Strip(Replace(sentence_lower, validation_word, "")) \o "."
        ELSE "The system shall validate: " \o sentence \o "."

\* any(actor in s for actor in actors if actor != 'system')
MentionsHumanActor(s, actors) ==
    \E i \in 1..Len(actors) : actors[i] # "system" /\ Contains(s, actors[i])

process_default_template(sentence, actors) ==
    IF MentionsHumanActor(Lower(sentence), actors)
    THEN "The system shall support the requirement: " \o sentence \o "."
    ELSE "The system shall be able to " \o Lower(sentence) \o "."

(***************************************************************************)
(* apply_rupp_templates_enhanced: the if/elif chain and its branches.      *)
(***************************************************************************)
\* the verb list of Template 3 with 'click' in it
system_verbs_with_click ==
    <<"display", "show", "validate", "process", "store", "retrieve", "calculate", "generate",
      "check", "ask", "prompt", "open", "close", "update", "enter", "select", "click">>

system_verbs ==
    <<"display", "show", "validate", "process", "store", "retrieve", "calculate", "generate",
      "check", "ask", "prompt", "open", "close", "update", "enter", "select">>

\* the conditions of the chain, on the stripped sentence and its lowercase
IsConditional(sentence, sentence_lower) ==
    /\ Contains(sentence_lower, "if")
    /\ (Contains(sentence_lower, "then") \/ Contains(sentence, ","))

IsWhen(sentence_lower) == StartsWith(sentence_lower, "when ")

IsSystemCapability(sentence_lower) == ContainsAny(sentence_lower, system_verbs)

\* Template 4 without its test of the actors
IsUserActionByVerb(sentence_lower, actors) ==
    ContainsAny(sentence_lower, <<"click", "enter", "select", "view", "browse", "search">>)

IsUserAction(sentence_lower, actors) ==
    \/ MentionsHumanActor(sentence_lower, actors)
    \/ ContainsAny(sentence_lower, <<"click", "enter", "select", "view", "browse", "search">>)

IsModal(sentence_lower) ==
    ContainsAny(sentence_lower, <<"should", "must", "can", "will", "shall", "may">>)

IsFeature(sentence_lower) ==
    ContainsAny(sentence_lower, <<"feature", "function", "capability", "service">>)

IsState(sentence_lower) ==
    ContainsAny(sentence_lower, <<"available", "ready", "logged in", "valid", "correct">>)

IsValidation(sentence_lower) ==
    ContainsAny(sentence_lower, <<"validate", "check", "verify", "confirm">>)

\* the chain with the Modal test moved to the front
TemplateKindModalFirst(sentence, actors) ==
    LET sentence_lower == Lower(sentence)
    IN  IF IsModal(sentence_lower) THEN "Modal"
        ELSE IF IsConditional(sentence, sentence_lower) THEN "Conditional"
        ELSE IF IsWhen(sentence_lower) THEN "When"
        ELSE IF IsSystemCapability(sentence_lower) THEN "SystemCapability"
        ELSE IF IsUserAction(sentence_lower, actors) THEN "UserAction"
        ELSE IF IsFeature(sentence_lower) THEN "Feature"
        ELSE IF IsState(sentence_lower) THEN "State"
        ELSE IF IsValidation(sentence_lower) THEN "Validation"
        ELSE "Default"

\* the branch of the chain that the stripped sentence takes
TemplateKind(sentence, actors) ==
    LET sentence_lower == Lower(sentence)
    IN  IF IsConditional(sentence, sentence_lower) THEN "Conditional"
        ELSE IF IsWhen(sentence_lower) THEN "When"
        ELSE IF IsSystemCapability(sentence_lower) THEN "SystemCapability"
        ELSE IF IsUserAction(sentence_lower, actors) THEN "UserAction"
        ELSE IF IsModal(sentence_lower) THEN "Modal"
        ELSE IF IsFeature(sentence_lower) THEN "Feature"
        ELSE IF IsState(sentence_lower) THEN "State"
        ELSE IF IsValidation(sentence_lower) THEN "Validation"
        ELSE "Default"

\* the method the branch calls
RewriteAs(kind, sentence, actors) ==
    CASE kind = "Conditional" -> process_conditional_template(sentence)
      [] kind = "When" -> process_when_template(sentence)
      [] kind = "SystemCapability" -> process_system_capability_template(sentence)
      [] kind = "UserAction" -> process_user_action_template(sentence, actors)
      [] kind = "Modal" -> process_modal_template(sentence)
      [] kind = "Feature" -> process_feature_template(sentence)
      [] kind = "State" -> process_state_template(sentence)
      [] kind = "Validation" -> process_validation_template(sentence)
      [] OTHER -> process_default_template(sentence, actors)

\* the chain written with 'if' for 'elif': every rule that matches appends its
\* requirement (the Default template cannot be reached that way: it is left out)
ApplyEveryMatchingTemplate(sentence, actors) ==
    LET stripped == Strip(sentence)
        lower == Lower(stripped)
        one(matches, req) == IF matches /\ req # "" THEN <<req>> ELSE <<>>
    IN  one(IsConditional(stripped, lower), process_conditional_template(stripped))
        \o one(IsWhen(lower), process_when_template(stripped))
        \o one(IsSystemCapability(lower), process_system_capability_template(stripped))
        \o one(IsUserAction(lower, actors), process_user_action_template(stripped, actors))
        \o one(IsModal(lower), process_modal_template(stripped))
        \o one(IsFeature(lower), process_feature_template(stripped))
        \o one(IsState(lower), process_state_template(stripped))
        \o one(IsValidation(lower), process_validation_template(stripped))

\* requirements: req appended only 'if req'
apply_rupp_templates_enhanced(sentence, actors) ==
    LET stripped == Strip(sentence)
        req == RewriteAs(TemplateKind(stripped, actors), stripped, actors)
    IN  IF req # "" THEN <<req>> ELSE <<>>

(***************************************************************************)
(* split_into_sentences                                                    *)
(***************************************************************************)
\* str(n) for a natural number
RECURSIVE NatToStr(_)
NatToStr(n) ==
    IF n < 10 THEN CharAt(DigitChars, n + 1)
    ELSE NatToStr(n \div 10) \o CharAt(DigitChars, (n % 10) + 1)

split_into_sentences(paragraph) ==
    LET parts == StripEach(SplitSentences(paragraph))
        kept == SelectSeq([i \in 1..Len(parts) |-> i],
                          LAMBDA i : parts[i] # "" /\ Len(parts[i]) > MinSentenceLen)
    IN  Join([k \in 1..Len(kept) |-> NatToStr(kept[k]) \o ". " \o parts[kept[k]]], "\n")

(***************************************************************************)
(* generate_snl_from_text, one call, step by step.                         *)
(***************************************************************************)
MinRequirementLen == 20

VARIABLES
    pc,                    \* where the call stands
    description,           \* the argument: [type, val]
    preprocessed_text,
    sentences,
    actors,
    next_sentence,         \* the position of the loop over sentences
    all_requirements,
    kinds,                 \* the branch of the chain taken for each sentence
    next_requirement,      \* the position of the loop over all_requirements
    cleaned_requirements,
    seen_requirements,
    result,                \* the dict returned; <<>> until the call returns
    processor,             \* the attributes of the FixedRUPPProcessor instance
    earlier_calls,         \* the calls the instance has answered: argument and result
    storage,               \* main_simple.storage: the module's in-memory dict
    request_data,          \* the body of the request process_requirements answers
    response,              \* the HTTP response: [status, detail]; <<>> until answered
    memory_storage,        \* the attributes of the MemoryStorage instance
    research_files,        \* the JSON files of research_dir the instance reads and writes
    issued,                \* how many uuid4 values and timestamps have been drawn
    validation             \* validate_plantuml_syntax: arguments, locals and result

vars == <<pc, description, preprocessed_text, sentences, actors, next_sentence,
          all_requirements, kinds, next_requirement, cleaned_requirements,
          seen_requirements, result, processor, earlier_calls, storage, request_data,
          response, memory_storage, research_files, issued, validation>>

\* what the other services of the backend hold
service_vars ==
    <<storage, request_data, response, memory_storage, research_files, issued, validation>>

\* main_simple.py, lines 50-58: the storage dict when the module is loaded
EmptyStorage ==
    [case_studies |-> {}, diagrams |-> {},
     statistics |-> [total_processed |-> 0, average_accuracy |-> <<0, 1>>,
                     processing_history |-> <<>>]]

\* MemoryStorage.__init__: no record yet, the statistics at zero;
\* average_accuracy is the quotient <<sum, count>>
NewMemoryStorage ==
    [case_studies |-> {}, comparisons |-> {}, diagrams |-> {},
     statistics |-> [total_processed |-> 0, average_accuracy |-> <<0, 1>>,
                     processing_history |-> <<>>]]

\* a file of research_dir: absent, or the dict that was written to it
NoFile == [exists |-> FALSE, data |-> {}]

FileWith(data) == [exists |-> TRUE, data |-> data]

\* no request, no stored record, no file and no validation yet
ServicesNotInUse ==
    /\ storage = EmptyStorage
    /\ request_data = <<>>
    /\ response = <<>>
    /\ memory_storage = NewMemoryStorage
    /\ research_files = [case_studies_json |-> NoFile, diagrams_json |-> NoFile,
                         writable |-> TRUE]
    /\ issued = 0
    /\ validation = <<>>

\* __init__: self.nlp is the loaded model, or None when spacy.load raised OSError
Constructed(loaded) ==
    [nlp |-> IF loaded THEN "en_core_web_sm" ELSE "None",
     corrections |-> {<<"librarian", "NOUN">>},
     abbreviation_mapping |-> {<<"guest user", "guest_user">>, <<"into", "in to">>}]

StrValue(text) == [type |-> "str", val |-> text]

NoneValue == [type |-> "NoneType", val |-> ""]

\* str(e) of the AttributeError that description.lower() raises on a non-str
AttributeErrorText(value) == "'" \o value.type \o "' object has no attribute 'lower'"

Called(value) ==
    /\ pc = "called"
    /\ description = value
    /\ preprocessed_text = ""
    /\ sentences = <<>>
    /\ actors = <<>>
    /\ next_sentence = 1
    /\ all_requirements = <<>>
    /\ kinds = <<>>
    /\ next_requirement = 1
    /\ cleaned_requirements = <<>>
    /\ seen_requirements = {}
    /\ result = <<>>
    /\ earlier_calls = <<>>
    /\ ServicesNotInUse

\* Step 1: preprocessed_text = self.apply_preprocessing(description)
Preprocess ==
    /\ pc = "called"
    /\ description.type = "str"
    /\ preprocessed_text' = apply_preprocessing(description.val)
    /\ pc' = "preprocessed"
    /\ UNCHANGED <<description, sentences, actors, next_sentence, all_requirements, kinds,
                   next_requirement, cleaned_requirements, seen_requirements, result>>
    /\ UNCHANGED <<processor, earlier_calls, service_vars>>

\* description.lower() raises and nothing catches it: the call is left by the exception
RaiseError ==
    /\ pc = "called"
    /\ description.type # "str"
    /\ pc' = "raised"
    /\ UNCHANGED <<description, preprocessed_text, sentences, actors, next_sentence,
                   all_requirements, kinds, next_requirement, cleaned_requirements,
                   seen_requirements, result>>
    /\ UNCHANGED <<processor, earlier_calls, service_vars>>

\* description.lower() raises inside the try: the except branch returns the error dict
ReturnError ==
    /\ pc = "called"
    /\ description.type # "str"
    /\ result' = [snl_text |-> "Error processing requirements: " \o AttributeErrorText(description),
                  actors |-> <<>>,
                  preprocessed_text |-> description,
                  sentences_count |-> 0,
                  formatted_sentences |-> "",
                  requirements |-> <<>>,
                  error |-> AttributeErrorText(description)]
    /\ pc' = "returned"
    /\ UNCHANGED <<description, preprocessed_text, sentences, actors, next_sentence,
                   all_requirements, kinds, next_requirement, cleaned_requirements,
                   seen_requirements>>
    /\ UNCHANGED <<processor, earlier_calls, service_vars>>

\* Step 2: sentences = self.extract_sentences_comprehensive(preprocessed_text)
ExtractSentences ==
    /\ pc = "preprocessed"
    /\ sentences' = extract_sentences_comprehensive(preprocessed_text)
    /\ pc' = "extracted"
    /\ UNCHANGED <<description, preprocessed_text, actors, next_sentence, all_requirements,
                   kinds, next_requirement, cleaned_requirements, seen_requirements, result>>
    /\ UNCHANGED <<processor, earlier_calls, service_vars>>

\* Step 3: actors = self.identify_actors_enhanced(description)
IdentifyActors ==
    /\ pc = "extracted"
    /\ actors' = identify_actors_enhanced(description.val)
    /\ pc' = "generating"
    /\ UNCHANGED <<description, preprocessed_text, sentences, next_sentence, all_requirements,
                   kinds, next_requirement, cleaned_requirements, seen_requirements, result>>
    /\ UNCHANGED <<processor, earlier_calls, service_vars>>

\* Step 4, one iteration of 'for sentence in sentences'
GenerateRequirement ==
    /\ pc = "generating"
    /\ next_sentence <= Len(sentences)
    /\ LET sentence == sentences[next_sentence]
           meaningful == Len(Strip(sentence)) > MinSentenceLen
           produced == IF meaningful THEN apply_rupp_templates_enhanced(sentence, actors)
                       ELSE <<>>
       IN  /\ all_requirements' = all_requirements \o produced
           /\ kinds' = Append(kinds, IF meaningful THEN TemplateKind(Strip(sentence), actors)
                                     ELSE "Skipped")
    /\ next_sentence' = next_sentence + 1
    /\ UNCHANGED <<pc, description, preprocessed_text, sentences, actors, next_requirement,
                   cleaned_requirements, seen_requirements, result>>
    /\ UNCHANGED <<processor, earlier_calls, service_vars>>

\* the loop over sentences is exhausted
FinishGenerating ==
    /\ pc = "generating"
    /\ next_sentence > Len(sentences)
    /\ pc' = "cleaning"
    /\ UNCHANGED <<description, preprocessed_text, sentences, actors, next_sentence,
                   all_requirements, kinds, next_requirement, cleaned_requirements,
                   seen_requirements, result>>
    /\ UNCHANGED <<processor, earlier_calls, service_vars>>

\* the test without 'len(req) > 20'
KeepRequirementOfAnyLength(req, seen) == req # "" /\ req \notin seen

\* the test without 'req not in seen_requirements'
KeepRequirementSeenOrNot(req, seen) == req # "" /\ Len(req) > MinRequirementLen

\* if req and req not in seen_requirements and len(req) > 20
KeepRequirement(req, seen) == req # "" /\ req \notin seen /\ Len(req) > MinRequirementLen

\* the iteration with insert(0, req) for append(req)
CleanRequirementInFront ==
    /\ pc = "cleaning"
    /\ next_requirement <= Len(all_requirements)
    /\ LET req == all_requirements[next_requirement]
       IN  IF KeepRequirement(req, seen_requirements)
           THEN /\ cleaned_requirements' = <<req>> \o cleaned_requirements
                /\ seen_requirements' = seen_requirements \cup {req}
           ELSE UNCHANGED <<cleaned_requirements, seen_requirements>>
    /\ next_requirement' = next_requirement + 1
    /\ UNCHANGED <<pc, description, preprocessed_text, sentences, actors, next_sentence,
                   all_requirements, kinds, result>>
    /\ UNCHANGED <<processor, earlier_calls, service_vars>>

\* Step 5, one iteration of 'for req in all_requirements'
CleanRequirement ==
    /\ pc = "cleaning"
    /\ next_requirement <= Len(all_requirements)
    /\ LET req == all_requirements[next_requirement]
       IN  IF KeepRequirement(req, seen_requirements)
           THEN /\ cleaned_requirements' = Append(cleaned_requirements, req)
                /\ seen_requirements' = seen_requirements \cup {req}
           ELSE UNCHANGED <<cleaned_requirements, seen_requirements>>
    /\ next_requirement' = next_requirement + 1
    /\ UNCHANGED <<pc, description, preprocessed_text, sentences, actors, next_sentence,
                   all_requirements, kinds, result>>
    /\ UNCHANGED <<processor, earlier_calls, service_vars>>

\* Step 6 and the return of the result dict
ReturnResult ==
    /\ pc = "cleaning"
    /\ next_requirement > Len(all_requirements)
    /\ LET final_snl == Join(cleaned_requirements, "\n")
       IN  result' = [snl_text |-> final_snl,
                      actors |-> actors,
                      preprocessed_text |-> preprocessed_text,
                      sentences_count |-> Len(cleaned_requirements),
                      formatted_sentences |-> split_into_sentences(final_snl),
                      requirements |-> cleaned_requirements,
                      original_sentences_processed |-> Len(sentences),
                      processing_stats |->
                          [total_input_sentences |-> Len(sentences),
                           requirements_generated |-> Len(all_requirements),
                           unique_requirements |-> Len(cleaned_requirements),
                           actors_identified |-> Len(actors)]]
    /\ pc' = "returned"
    /\ UNCHANGED <<description, preprocessed_text, sentences, actors, next_sentence,
                   all_requirements, kinds, next_requirement, cleaned_requirements,
                   seen_requirements>>
    /\ UNCHANGED <<processor, earlier_calls, service_vars>>

Next ==
    \/ Preprocess
    \/ ReturnError
    \/ ExtractSentences
    \/ IdentifyActors
    \/ GenerateRequirement
    \/ FinishGenerating
    \/ CleanRequirement
    \/ ReturnResult

(***************************************************************************)
(* The case-study texts a call is made with: up to MaxSentences sentences, *)
(* each a head followed by a tail.                                         *)
(***************************************************************************)
MaxSentences == 2

Heads == {"If the id is wrong", "The system", "The Member", "Ok"}

Tails ==
    {" then system asks again.", " displays the page.",
     " clicks the button and enters details.", ""}

CaseSentences == {h \o t : h \in Heads, t \in Tails}

\* the texts made of 1..n of the fragments, joined by sep
RECURSIVE TextsOf(_, _, _)
TextsOf(fragments, sep, n) ==
    IF n = 0 THEN {}
    ELSE fragments \cup {t \o sep \o f : t \in TextsOf(fragments, sep, n - 1), f \in fragments}

\* a call with a str, and the call with None that the type hint does not prevent
CallsWith(texts) == {StrValue(t) : t \in texts} \cup {NoneValue}

Inputs == CallsWith(TextsOf(CaseSentences, " ", MaxSentences))

Init == processor = Constructed(TRUE) /\ \E value \in Inputs : Called(value)

Spec == Init /\ [][Next]_vars

(***************************************************************************)
(* One sentence of up to MaxPhrases phrases: the keywords of every branch  *)
(* of the template chain, alone and together.                              *)
(***************************************************************************)
MaxPhrases == 3

Phrases ==
    {"If it fails", " then ", ", ", "the system should ask", "When ready ",
     "the user can view it", "verify", "a feature", "it must work", "hello world"}

PhraseInputs == CallsWith(TextsOf(Phrases, "", MaxPhrases))

InitPhrases == processor = Constructed(TRUE) /\ \E value \in PhraseInputs : Called(value)

SpecPhrases == InitPhrases /\ [][Next]_vars

(***************************************************************************)
(* Raw text of up to MaxRawFragments fragments: capitals, '&', a           *)
(* contraction, punctuation, the underscore and runs of whitespace.        *)
(***************************************************************************)
MaxRawFragments == 3

RawFragments ==
    {"Ok", "a ", "? ", "b!;", "can't", "&", "_x", "'", "\t ", ".", "-", "1"}

RawInputs == CallsWith(TextsOf(RawFragments, "", MaxRawFragments))

InitRaw == processor = Constructed(TRUE) /\ \E value \in RawInputs : Called(value)

SpecRaw == InitRaw /\ [][Next]_vars

(***************************************************************************)
(* Text of up to MaxActorFragments fragments: actor words, whole, in       *)
(* capitals, broken by punctuation, and words that are no actors.          *)
(***************************************************************************)
MaxActorFragments == 3

ActorFragments ==
    {"system", "Sys", "-tem", "user ", "admin", "istrator", "The Member", "guest.",
     "librarian", " ", "books", "database "}

ActorInputs == CallsWith(TextsOf(ActorFragments, "", MaxActorFragments))

InitActors == processor = Constructed(TRUE) /\ \E value \in ActorInputs : Called(value)

SpecActors == InitActors /\ [][Next]_vars


(***************************************************************************)
(* The scenario texts: up to MaxScenarioSentences of the scenario          *)
(* sentences, repeats of one sentence among them.                          *)
(***************************************************************************)
MaxScenarioSentences == 3

ScenarioA == "The member clicks the login button. The system validates credentials."

ScenarioB == "If the entered information is wrong then system asks member to reenter the details."

ScenarioSentences ==
    {"The member clicks the login button.", "The system validates credentials.", ScenarioB,
     "System validates credentials.", "It must."}

ScenarioInputs == CallsWith(TextsOf(ScenarioSentences, " ", MaxScenarioSentences))

InitScenarios == processor = Constructed(TRUE) /\ \E value \in ScenarioInputs : Called(value)

SpecScenarios == InitScenarios /\ [][Next]_vars

(***************************************************************************)
(* Several calls on one instance, one after the other: up to MaxCalls      *)
(* calls, each with one of the texts of CallTexts or with None.            *)
(***************************************************************************)
MaxCalls == 3

CallTexts == {ScenarioA, "The system validates credentials. System validates credentials.",
              "It must.", "Ok"}

CallInputs == CallsWith(CallTexts)

\* a further call with seen_requirements kept from the call before, as it would
\* be were the set an attribute of the instance
CallAgainKeepingSeen ==
    /\ pc = "returned"
    /\ Len(earlier_calls) + 1 < MaxCalls
    /\ \E value \in CallInputs : description' = value
    /\ earlier_calls' = Append(earlier_calls, [description |-> description, result |-> result,
                                               processor |-> processor])
    /\ pc' = "called"
    /\ preprocessed_text' = ""
    /\ sentences' = <<>>
    /\ actors' = <<>>
    /\ next_sentence' = 1
    /\ all_requirements' = <<>>
    /\ kinds' = <<>>
    /\ next_requirement' = 1
    /\ cleaned_requirements' = <<>>
    /\ result' = <<>>
    /\ UNCHANGED <<processor, seen_requirements, service_vars>>

\* the caller calls generate_snl_from_text again on the same instance: the
\* locals of the new call are fresh, the attributes of the instance are kept
CallAgain ==
    /\ pc = "returned"
    /\ Len(earlier_calls) + 1 < MaxCalls
    /\ \E value \in CallInputs : description' = value
    /\ earlier_calls' = Append(earlier_calls, [description |-> description, result |-> result,
                                               processor |-> processor])
    /\ pc' = "called"
    /\ preprocessed_text' = ""
    /\ sentences' = <<>>
    /\ actors' = <<>>
    /\ next_sentence' = 1
    /\ all_requirements' = <<>>
    /\ kinds' = <<>>
    /\ next_requirement' = 1
    /\ cleaned_requirements' = <<>>
    /\ seen_requirements' = {}
    /\ result' = <<>>
    /\ UNCHANGED <<processor, service_vars>>

NextCalls == Next \/ CallAgain

InitCalls == processor \in {Constructed(TRUE), Constructed(FALSE)} /\ \E value \in CallInputs : Called(value)

SpecCalls == InitCalls /\ [][NextCalls]_vars

(***************************************************************************)
(* extract_sentences_comprehensive called on its own, with raw text of up  *)
(* to MaxExtractSentences sentences: compound sentences with ';', ' and '  *)
(* and ' then ', numbers, noise phrases, repeats.                          *)
(***************************************************************************)
MaxExtractSentences == 2

ExtractSentencesOf ==
    {"The member of the system clicks the button and enters details and the page opens.",
     "The guest user selects a book and returns it.",
     "It opens and closes it again.",
     "A guest asks; the librarian checks then the user returns books.",
     "User and admin.", "The user pays then the return date is shown.", "The user pays then leaves.",
     "12345.", "-- --.", "Ok."}

ExtractInputs == TextsOf(ExtractSentencesOf, " ", MaxExtractSentences)

InitExtract ==
    /\ processor = Constructed(TRUE)
    /\ \E text \in ExtractInputs : description = StrValue(text)
    /\ pc = "extract_called"
    /\ preprocessed_text = ""
    /\ sentences = <<>>
    /\ actors = <<>>
    /\ next_sentence = 1
    /\ all_requirements = <<>>
    /\ kinds = <<>>
    /\ next_requirement = 1
    /\ cleaned_requirements = <<>>
    /\ seen_requirements = {}
    /\ result = <<>>
    /\ earlier_calls = <<>>
    /\ ServicesNotInUse

\* the call processor.extract_sentences_comprehensive(text) and its return
ExtractDirectly ==
    /\ pc = "extract_called"
    /\ sentences' = extract_sentences_comprehensive(description.val)
    /\ pc' = "extract_returned"
    /\ UNCHANGED <<description, preprocessed_text, actors, next_sentence, all_requirements,
                   kinds, next_requirement, cleaned_requirements, seen_requirements, result,
                   processor, earlier_calls, service_vars>>

NextExtract == ExtractDirectly

SpecExtract == InitExtract /\ [][NextExtract]_vars


(***************************************************************************)
(* apply_rupp_templates_enhanced called on its own, with one sentence of   *)
(* up to MaxTemplateParts parts and the actors found in that sentence:     *)
(* conditions with ' then ', with a comma, with 'then' and 'if' inside     *)
(* words, several modal verbs, capability verbs in and out of the lookup,  *)
(* and sentences that leave a slot of their template empty.                *)
(***************************************************************************)
MaxTemplateParts == 2

TemplateParts ==
    {"If the notification differs", "If authenticated", "If", ", the system opens the page",
     " then system asks again", " then system", "It can and must", " work",
     "The system validates", " credentials", "The member calculates", "When ready",
     " it shall"}

TemplateInputs == TextsOf(TemplateParts, "", MaxTemplateParts)

InitTemplates ==
    /\ processor = Constructed(TRUE)
    /\ \E sentence \in TemplateInputs :
          /\ sentences = <<sentence>>
          /\ actors = identify_actors_enhanced(sentence)
    /\ pc = "templates_called"
    /\ description = StrValue("")
    /\ preprocessed_text = ""
    /\ next_sentence = 1
    /\ all_requirements = <<>>
    /\ kinds = <<>>
    /\ next_requirement = 1
    /\ cleaned_requirements = <<>>
    /\ seen_requirements = {}
    /\ result = <<>>
    /\ earlier_calls = <<>>
    /\ ServicesNotInUse

\* the call processor.apply_rupp_templates_enhanced(sentence, actors) and its return
ApplyTemplatesDirectly ==
    /\ pc = "templates_called"
    /\ all_requirements' = apply_rupp_templates_enhanced(sentences[1], actors)
    /\ kinds' = <<TemplateKind(Strip(sentences[1]), actors)>>
    /\ pc' = "templates_returned"
    /\ UNCHANGED <<description, preprocessed_text, sentences, actors, next_sentence,
                   next_requirement, cleaned_requirements, seen_requirements, result,
                   processor, earlier_calls, service_vars>>

NextTemplates == ApplyTemplatesDirectly

SpecTemplates == InitTemplates /\ [][NextTemplates]_vars


(***************************************************************************)
(* main_simple.py: POST /api/process-requirements, one request after the   *)
(* other, up to MaxRequests of them.  The record of a case study keeps its *)
(* id, title and original_text; the SNL results and the comparison stored  *)
(* with them are computed from the text and are left out.                  *)
(***************************************************************************)
MaxRequests == 2

\* the key is not in the body
NoKey == [type |-> "absent", val |-> ""]

RequestTexts ==
    {StrValue(""), StrValue("   "), StrValue("\t\n"), StrValue("The system validates credentials."),
     StrValue(" Members borrow books. "), NoneValue, NoKey}

RequestTitles == {StrValue("Library"), NoKey}

Requests == [text : RequestTexts, title : RequestTitles]

\* dict.get(key, default)
GetOr(value, default) == IF value.type = "absent" THEN StrValue(default) ELSE value

\* str(e) of the HTTPException raised at line 86: "" where the class leaves
\* Exception.args empty, "400: Text is required" where it defines __str__
TextRequiredMessages == {"", "400: Text is required"}

\* str(e) of the AttributeError that text.strip() raises on a non-str
NoStripText(value) == "'" \o value.type \o "' object has no attribute 'strip'"

InitApi ==
    /\ processor = Constructed(TRUE)
    /\ pc = "api_idle"
    /\ description = StrValue("")
    /\ preprocessed_text = ""
    /\ sentences = <<>>
    /\ actors = <<>>
    /\ next_sentence = 1
    /\ all_requirements = <<>>
    /\ kinds = <<>>
    /\ next_requirement = 1
    /\ cleaned_requirements = <<>>
    /\ seen_requirements = {}
    /\ result = <<>>
    /\ earlier_calls = <<>>
    /\ ServicesNotInUse

pipeline_vars ==
    <<description, preprocessed_text, sentences, actors, next_sentence, all_requirements,
      kinds, next_requirement, cleaned_requirements, seen_requirements, result, processor,
      earlier_calls>>

\* a client posts a body to /api/process-requirements
ReceiveRequest ==
    /\ pc \in {"api_idle", "responded"}
    /\ issued < MaxRequests
    /\ \E body \in Requests : request_data' = body
    /\ response' = <<>>
    /\ pc' = "request_received"
    /\ UNCHANGED <<storage, memory_storage, research_files, issued, validation>>
    /\ UNCHANGED pipeline_vars

\* process_requirements: the whole body is inside 'try', and 'except Exception'
\* catches the HTTPException of line 86 as it catches every other exception
ProcessRequirements ==
    /\ pc = "request_received"
    /\ LET text == GetOr(request_data.text, "")
           title == GetOr(request_data.title, "Untitled Case Study")
       IN  IF text.type # "str"
           THEN /\ response' = [status |-> 500,
                                detail |-> "Processing failed: " \o NoStripText(text)]
                /\ UNCHANGED <<storage, issued>>
           ELSE IF Strip(text.val) = ""
           THEN /\ \E message \in TextRequiredMessages :
                      response' = [status |-> 500, detail |-> "Processing failed: " \o message]
                /\ UNCHANGED <<storage, issued>>
           ELSE /\ issued' = issued + 1
                /\ storage' = [storage EXCEPT !.case_studies =
                                  @ \cup {[id |-> issued + 1, title |-> title.val,
                                           original_text |-> text.val]}]
                /\ response' = [status |-> 200, detail |-> "", id |-> issued + 1]
    /\ pc' = "responded"
    /\ UNCHANGED <<request_data, memory_storage, research_files, validation>>
    /\ UNCHANGED pipeline_vars

NextApi == ReceiveRequest \/ ProcessRequirements

SpecApi == InitApi /\ [][NextApi]_vars


(***************************************************************************)
(* memory_storage.py: one MemoryStorage instance and the files of its      *)
(* research_dir.  A uuid4 value and a timestamp are the number of the      *)
(* draw; a record keeps id, timestamp, title, the type of its comparison   *)
(* and the metrics of the comparison, in percent; a quotient is the pair   *)
(* <<sum, count>>.                                                         *)
(***************************************************************************)
HistoryLimit == 100

\* comparison.get('metrics', {}) without 'accuracy' and 'f1_score'
NoMetrics == [accuracy |-> 0, f1_score |-> 0]

\* the dicts store_case_study is called with, one of them with None as its
\* 'comparison', and None
CaseStudyData ==
    {[type |-> "dict", title |-> StrValue("Library"), comparison |-> "dict",
      metrics |-> [accuracy |-> 80, f1_score |-> 70]],
     [type |-> "dict", title |-> NoKey, comparison |-> "dict", metrics |-> NoMetrics],
     [type |-> "dict", title |-> StrValue("Hotel"), comparison |-> "NoneType",
      metrics |-> NoMetrics],
     [type |-> "NoneType", title |-> NoKey, comparison |-> "NoneType", metrics |-> NoMetrics]}

\* a record that an earlier run of the backend left in case_studies.json
EarlierRecord ==
    [id |-> 0, timestamp |-> 0, title |-> "Earlier", comparison |-> "dict", metrics |-> NoMetrics]

RECURSIVE SumOf(_, _)
SumOf(xs, n) == IF n = 0 THEN 0 ELSE SumOf(xs, n - 1) + xs[n].accuracy

\* the slice taken from the front: history[:100]
FirstEntries(history) ==
    IF Len(history) > HistoryLimit THEN SubSeq(history, 1, HistoryLimit) ELSE history

\* history[-100:]
LastEntries(history) ==
    IF Len(history) > HistoryLimit
    THEN SubSeq(history, Len(history) - HistoryLimit + 1, Len(history))
    ELSE history

\* _update_statistics(case_study_record): comparison.get raises when the
\* comparison is no dict, after the count was taken, and the exception is
\* only reported
_update_statistics(statistics, record) ==
    LET history_entry == [timestamp |-> record.timestamp, case_id |-> record.id,
                          title |-> record.title, accuracy |-> record.metrics.accuracy,
                          f1_score |-> record.metrics.f1_score]
        history == LastEntries(Append(statistics.processing_history, history_entry))
    IN  IF record.comparison # "dict"
        THEN [statistics EXCEPT !.total_processed = @ + 1]
        ELSE [total_processed |-> statistics.total_processed + 1,
              average_accuracy |-> <<SumOf(history, Len(history)), Len(history)>>,
              processing_history |-> history]

\* _save_to_file(filename, data): a write that fails is only reported
SavedTo(file, data) ==
    IF research_files.writable
    THEN [research_files EXCEPT ![file] = FileWith(data)]
    ELSE research_files

storage_others ==
    <<pc, storage, response, validation, description, preprocessed_text, sentences, actors,
      next_sentence, all_requirements, kinds, next_requirement, cleaned_requirements,
      seen_requirements, result, processor>>

\* store_case_study(case_study_data), to its return or to the exception it raises
store_case_study(case_study_data) ==
    /\ issued' = issued + 1
    /\ IF case_study_data.type # "dict"
       THEN /\ earlier_calls' = Append(earlier_calls, [method |-> "store_case_study",
                                                       raised |-> TRUE])
            /\ UNCHANGED <<memory_storage, research_files>>
       ELSE LET record == [id |-> issued + 1, timestamp |-> issued + 1,
                           title |-> GetOr(case_study_data.title, "Untitled").val,
                           comparison |-> case_study_data.comparison,
                           metrics |-> case_study_data.metrics]
                case_studies == memory_storage.case_studies \cup {record}
            IN  /\ memory_storage' =
                      [memory_storage EXCEPT
                          !.case_studies = case_studies,
                          !.statistics = _update_statistics(@, record)]
                /\ research_files' = SavedTo("case_studies_json", case_studies)
                /\ earlier_calls' = Append(earlier_calls, [method |-> "store_case_study",
                                                           raised |-> FALSE])
    /\ request_data' = case_study_data
    /\ UNCHANGED storage_others


\* up to MaxStorageCalls calls of store_case_study, clear_all_data and
\* load_from_files, in any order
MaxStorageCalls == 4

StoreCaseStudy ==
    /\ pc = "storage_ready"
    /\ Len(earlier_calls) < MaxStorageCalls
    /\ \E case_study_data \in CaseStudyData : store_case_study(case_study_data)

\* clear_all_data without the reset of the statistics
ClearCaseStudiesOnly ==
    /\ pc = "storage_ready"
    /\ Len(earlier_calls) < MaxStorageCalls
    /\ memory_storage' = [memory_storage EXCEPT !.case_studies = {}, !.diagrams = {}]
    /\ research_files' = SavedTo("diagrams_json", {})
    /\ earlier_calls' = Append(earlier_calls, [method |-> "clear_all_data", raised |-> FALSE])
    /\ UNCHANGED <<issued, request_data>>
    /\ UNCHANGED storage_others

\* clear_all_data()
ClearAllData ==
    /\ pc = "storage_ready"
    /\ Len(earlier_calls) < MaxStorageCalls
    /\ memory_storage' = [memory_storage EXCEPT
                             !.case_studies = {},
                             !.diagrams = {},
                             !.statistics = NewMemoryStorage.statistics]
    /\ research_files' = IF research_files.writable
                         THEN [research_files EXCEPT !.case_studies_json = FileWith({}),
                                                     !.diagrams_json = FileWith({})]
                         ELSE research_files
    /\ earlier_calls' = Append(earlier_calls, [method |-> "clear_all_data", raised |-> FALSE])
    /\ UNCHANGED <<issued, request_data>>
    /\ UNCHANGED storage_others

\* load_from_files(): a file that exists replaces the dict, the statistics stay
LoadFromFiles ==
    /\ pc = "storage_ready"
    /\ Len(earlier_calls) < MaxStorageCalls
    /\ memory_storage' =
          [memory_storage EXCEPT
              !.case_studies = IF research_files.case_studies_json.exists
                               THEN research_files.case_studies_json.data ELSE @,
              !.diagrams = IF research_files.diagrams_json.exists
                           THEN research_files.diagrams_json.data ELSE @]
    /\ earlier_calls' = Append(earlier_calls, [method |-> "load_from_files", raised |-> FALSE])
    /\ UNCHANGED <<issued, request_data, research_files>>
    /\ UNCHANGED storage_others

NextStorage == StoreCaseStudy \/ ClearAllData \/ LoadFromFiles

\* a new instance; case_studies.json is absent or was left by an earlier run,
\* and research_dir can or cannot be written
StorageConstructed ==
    /\ processor = Constructed(TRUE)
    /\ pc = "storage_ready"
    /\ description = StrValue("")
    /\ preprocessed_text = ""
    /\ sentences = <<>>
    /\ actors = <<>>
    /\ next_sentence = 1
    /\ all_requirements = <<>>
    /\ kinds = <<>>
    /\ next_requirement = 1
    /\ cleaned_requirements = <<>>
    /\ seen_requirements = {}
    /\ result = <<>>
    /\ earlier_calls = <<>>
    /\ storage = EmptyStorage
    /\ response = <<>>
    /\ memory_storage = NewMemoryStorage
    /\ issued = 0
    /\ validation = <<>>
    /\ \E file \in {NoFile, FileWith({EarlierRecord})}, writable \in BOOLEAN :
          research_files = [case_studies_json |-> file, diagrams_json |-> NoFile,
                            writable |-> writable]

InitStorage == StorageConstructed /\ request_data = <<>>

SpecStorage == InitStorage /\ [][NextStorage]_vars

\* a long run of store_case_study calls, up to MaxHistoryStores of them: more
\* than processing_history keeps.  The first MaxOtherStores calls can change
\* the case study, the later ones repeat the one of the call before
MaxHistoryStores == 102

MaxOtherStores == 2

StoreSameCaseStudy ==
    /\ pc = "storage_ready"
    /\ Len(earlier_calls) < MaxHistoryStores
    /\ store_case_study(request_data)

StoreOtherCaseStudy ==
    /\ pc = "storage_ready"
    /\ Len(earlier_calls) < MaxOtherStores
    /\ \E case_study_data \in CaseStudyData \ {request_data} :
          store_case_study(case_study_data)

NextHistory == StoreSameCaseStudy \/ StoreOtherCaseStudy

InitHistory == StorageConstructed /\ request_data \in CaseStudyData

SpecHistory == InitHistory /\ [][NextHistory]_vars


(***************************************************************************)
(* diagram_service.py: validate_plantuml_syntax.  validation holds the      *)
(* arguments and the local variables of one call: current_code, the loop    *)
(* index retry, fixed, result, and in attempts what every pass of the loop  *)
(* found (its errors and its fixed), in the order of the passes.            *)
(*                                                                          *)
(* The codes of a call hold no relationship ('--'), label (':'), message    *)
(* ('->'), activation ('activate') and colour ('#'): the per-line checks of *)
(* lines 2064-2141, 2155-2197 and 2214-2219 and the fix of lines 2037-2051  *)
(* find nothing in them.                                                    *)
(***************************************************************************)
\* max_retries: int = 3, and the calls with fewer
MaxRetries == 3

\* s.count(c) for one character
Count(s, c) == Cardinality({i \in 1..Len(s) : CharAt(s, i) = c})

\* c * n
RECURSIVE Times(_, _)
Times(c, n) == IF n = 0 THEN "" ELSE c \o Times(c, n - 1)

\* d[key] = value on a dict with str keys
WithItem(d, key, value) ==
    [k \in (DOMAIN d) \cup {key} |-> IF k = key THEN value ELSE d[k]]

EmptyDict == [k \in {} |-> ""]

PlantUMLCodes ==
    {"", "class A",
     "@startuml\nclass A {\n}\n@enduml",
     "class A {\n}",
     "  @startuml\nactor Bob",
     "@startuml\nclass A }\n@enduml",
     "@startuml\nclass A {\n@enduml",
     "@startuml\nactor Bob (\n@enduml",
     "@startuml\nactor Bob )\n@enduml",
     "@startuml\nactor \"Bob\n@enduml",
     "@startuml\nnote over\n@enduml",
     "class A }\nclass \"B"}

PlainCode(plantuml_code) ==
    ~ContainsAny(Lower(plantuml_code), <<"--", ":", "->", "activate", "#">>)

DiagramTypes == {"class", "Sequence", "activity"}

NewValidationResult ==
    [is_valid |-> FALSE, errors |-> <<>>, warnings |-> <<>>, line_errors |-> EmptyDict,
     fixed_code |-> NoneValue, retry_count |-> 0, retry_suggestions |-> <<>>,
     can_retry |-> FALSE]

\* the locals that the checks of one pass hand on
Checked(current_code, errors, line_errors, fixed, retry_suggestions) ==
    [current_code |-> current_code, errors |-> errors, line_errors |-> line_errors,
     fixed |-> fixed, retry_suggestions |-> retry_suggestions]

\* lines 2002-2007
CheckStartuml(c) ==
    IF ~StartsWith(Strip(c.current_code), "@startuml")
    THEN Checked("@startuml\n" \o Strip(c.current_code),
                 Append(c.errors, "Missing @startuml at the beginning"),
                 WithItem(c.line_errors, "1", "Missing @startuml tag"),
                 TRUE, c.retry_suggestions)
    ELSE c

\* lines 2009-2014
CheckEnduml(c) ==
    IF ~EndsWith(Strip(c.current_code), "@enduml")
    THEN LET last_line == Len(SplitOn(c.current_code, "\n"))
         IN  Checked(Strip(c.current_code) \o "\n@enduml",
                     Append(c.errors, "Missing @enduml at the end"),
                     WithItem(c.line_errors, NatToStr(last_line), "Missing @enduml tag"),
                     TRUE, c.retry_suggestions)
    ELSE c

\* f"Unbalanced {what}: {open_count} opening vs {close_count} closing"
Unbalanced(what, open_count, close_count) ==
    "Unbalanced " \o what \o ": " \o NatToStr(open_count) \o " opening vs "
        \o NatToStr(close_count) \o " closing"

\* lines 2016-2029
CheckBrackets(c) ==
    LET open_count == Count(c.current_code, "{")
        close_count == Count(c.current_code, "}")
        errors == Append(c.errors, Unbalanced("brackets", open_count, close_count))
    IN  IF open_count > close_count
        THEN Checked(RStrip(c.current_code) \o "\n"
                         \o Times("}", open_count - close_count) \o "\n@enduml",
                     errors, c.line_errors, TRUE, c.retry_suggestions)
        ELSE IF close_count > open_count
        THEN Checked(c.current_code,
                     Append(errors, "Too many closing brackets - requires manual fix"),
                     c.line_errors, c.fixed,
                     Append(c.retry_suggestions,
                            "Check for and remove extra closing brackets '}'"))
        ELSE c

\* lines 2031-2054: without an activate statement, activate_matches is empty
\* and nothing is added for a missing closing parenthesis
CheckParentheses(c) ==
    LET open_count == Count(c.current_code, "(")
        close_count == Count(c.current_code, ")")
        errors == Append(c.errors, Unbalanced("parentheses", open_count, close_count))
    IN  IF open_count > close_count
        THEN Checked(c.current_code, errors, c.line_errors, c.fixed, c.retry_suggestions)
        ELSE IF close_count > open_count
        THEN Checked(c.current_code,
                     Append(errors, "Too many closing parentheses - requires manual fix"),
                     c.line_errors, c.fixed,
                     Append(c.retry_suggestions,
                            "Check for and remove extra closing parentheses ')'"))
        ELSE c

\* lines 2056-2059 and 2146-2150: the keywords of the diagram type
CheckDiagramType(c, diagram_type) ==
    IF Lower(diagram_type) = "class"
    THEN IF ~Contains(Lower(c.current_code), "class")
         THEN Checked(c.current_code,
                      Append(c.errors, "No class definition found in class diagram"),
                      c.line_errors, c.fixed,
                      Append(c.retry_suggestions,
                             "Add at least one class definition using 'class ClassName' syntax"))
         ELSE c
    ELSE IF Lower(diagram_type) = "sequence"
    THEN IF ~ContainsAny(Lower(c.current_code), <<"participant", "actor", "->", "-->">>)
         THEN Checked(c.current_code,
                      Append(c.errors, "No participants or messages found in sequence diagram"),
                      c.line_errors, c.fixed,
                      c.retry_suggestions \o
                          <<"Add at least one participant using 'participant Name' or 'actor Name' syntax",
                            "Add at least one message using 'ParticipantA -> ParticipantB: Message' syntax">>)
         ELSE c
    ELSE c

\* lines 2199-2224: the loop over the lines, from line i on
RECURSIVE CheckQuotes(_, _, _)
CheckQuotes(c, lines, i) ==
    IF i > Len(lines) THEN [c EXCEPT !.current_code = IF c.fixed THEN Join(lines, "\n") ELSE @]
    ELSE IF Count(lines[i], "\"") % 2 # 0
    THEN CheckQuotes(Checked(c.current_code,
                             Append(c.errors, "Line " \o NatToStr(i) \o ": Unclosed quotes"),
                             WithItem(c.line_errors, NatToStr(i), "Unclosed quotes"),
                             TRUE, c.retry_suggestions),
                     [lines EXCEPT ![i] = @ \o "\""], i + 1)
    ELSE CheckQuotes(c, lines, i + 1)

\* one pass of the loop of line 1994, up to line 2224
CheckedOnce(current_code, diagram_type, retry_suggestions) ==
    LET c0 == Checked(current_code, <<>>, EmptyDict, FALSE, retry_suggestions)
        c1 == CheckDiagramType(CheckParentheses(CheckBrackets(CheckEnduml(CheckStartuml(c0)))),
                               diagram_type)
    IN  CheckQuotes(c1, SplitOn(c1.current_code, "\n"), 1)

\* the call, up to the loop: lines 1972-1992
ValidatePlantumlSyntax ==
    /\ pc = "validation_idle"
    /\ \E plantuml_code \in {c \in PlantUMLCodes : PlainCode(c)},
          diagram_type \in DiagramTypes, max_retries \in 0..MaxRetries :
          LET short == plantuml_code = "" \/ Len(Strip(plantuml_code)) < 10
          IN  /\ validation' =
                    [plantuml_code |-> plantuml_code, diagram_type |-> diagram_type,
                     max_retries |-> max_retries, current_code |-> plantuml_code,
                     retry |-> 0, fixed |-> FALSE, attempts |-> <<>>,
                     result |-> IF short
                                THEN [NewValidationResult EXCEPT
                                         !.errors = <<"Empty or too short PlantUML code">>]
                                ELSE NewValidationResult]
              /\ pc' = IF short THEN "validation_returned" ELSE "validation_loop"
    /\ UNCHANGED <<storage, request_data, response, memory_storage, research_files, issued>>
    /\ UNCHANGED pipeline_vars

\* one pass of the loop: lines 1994-2242.  The pass ends the loop when it
\* found no error (line 2237); the 'continue' of line 2242 and the end of the
\* body both go on with the next value of range(max_retries)
ValidationAttempt ==
    /\ pc = "validation_loop"
    /\ validation.retry < validation.max_retries
    /\ LET retry == validation.retry
           c == CheckedOnce(validation.current_code, validation.diagram_type,
                            validation.result.retry_suggestions)
           valid == c.errors = <<>>
       IN  /\ validation' =
                 [validation EXCEPT
                     !.current_code = c.current_code,
                     !.fixed = c.fixed,
                     !.attempts = Append(@, [errors |-> c.errors, fixed |-> c.fixed]),
                     !.retry = retry + 1,
                     !.result =
                         [@ EXCEPT
                             !.errors = c.errors,
                             !.warnings = <<>>,
                             !.line_errors = c.line_errors,
                             !.retry_count = retry + 1,
                             !.retry_suggestions = c.retry_suggestions,
                             !.is_valid = valid,
                             !.fixed_code = IF valid /\ c.fixed THEN StrValue(c.current_code)
                                            ELSE @,
                             !.can_retry = IF ~valid /\ ~c.fixed
                                              /\ retry < validation.max_retries - 1
                                           THEN TRUE ELSE @]]
           /\ pc' = IF valid THEN "validation_done" ELSE "validation_loop"
    /\ UNCHANGED <<storage, request_data, response, memory_storage, research_files, issued>>
    /\ UNCHANGED pipeline_vars

\* after the loop: lines 2244-2257
ValidationReturn ==
    /\ \/ pc = "validation_done"
       \/ pc = "validation_loop" /\ validation.retry >= validation.max_retries
    /\ validation' =
          [validation EXCEPT
              !.result =
                  IF ~@.is_valid
                  THEN [@ EXCEPT
                          !.can_retry = TRUE,
                          !.retry_suggestions =
                              IF @ = <<>>
                              THEN <<"Ensure all opening and closing tags are balanced",
                                     "Check for proper syntax in all relationships and messages",
                                     "Verify that all required elements are present for your diagram type">>
                              ELSE @]
                  ELSE @]
    /\ pc' = "validation_returned"
    /\ UNCHANGED <<storage, request_data, response, memory_storage, research_files, issued>>
    /\ UNCHANGED pipeline_vars

NextValidation == ValidatePlantumlSyntax \/ ValidationAttempt \/ ValidationReturn

InitValidation ==
    /\ processor = Constructed(TRUE)
    /\ pc = "validation_idle"
    /\ description = StrValue("")
    /\ preprocessed_text = ""
    /\ sentences = <<>>
    /\ actors = <<>>
    /\ next_sentence = 1
    /\ all_requirements = <<>>
    /\ kinds = <<>>
    /\ next_requirement = 1
    /\ cleaned_requirements = <<>>
    /\ seen_requirements = {}
    /\ result = <<>>
    /\ earlier_calls = <<>>
    /\ ServicesNotInUse

SpecValidation == InitValidation /\ [][NextValidation]_vars


(***************************************************************************)
(* The properties of the pipeline.                                         *)
(***************************************************************************)
Returned == pc = "returned"

\* the call returned the result dict, not the error dict
Succeeded == Returned /\ "error" \notin DOMAIN result

\* actors has been assigned
ActorsKnown == pc \in {"generating", "cleaning", "returned"} /\ description.type = "str"

Occurs(x, xs) == \E i \in 1..Len(xs) : xs[i] = x

\* C1: every requirement string returned in 'requirements' begins with "If ",
\* "When " or "The system shall" and ends with ".", whichever template or
\* fallback branch produced it.
C1_RequirementShape ==
    Succeeded =>
        \A i \in 1..Len(result.requirements) :
            /\ StartsWithAny(result.requirements[i], <<"If ", "When ", "The system shall">>)
            /\ EndsWith(result.requirements[i], ".")

\* a result that holds the output of the fallback branch of the Conditional template
C1_Witness ==
    /\ Succeeded
    /\ Occurs("Conditional", kinds)
    /\ \E i \in 1..Len(result.requirements) :
          StartsWith(result.requirements[i], "The system shall handle the condition: ")

\* C2: the returned 'requirements' list holds no two entries with the same text.
C2_NoDuplicates ==
    Succeeded =>
        \A i, j \in 1..Len(result.requirements) :
            i < j => result.requirements[i] # result.requirements[j]

\* two sentences produced the same long requirement, and the call returned
C2_Witness ==
    /\ Succeeded
    /\ \E i, j \in 1..Len(all_requirements) :
          /\ i < j
          /\ all_requirements[i] = all_requirements[j]
          /\ Len(all_requirements[i]) > MinRequirementLen

NormalKeys ==
    {"snl_text", "actors", "preprocessed_text", "sentences_count", "formatted_sentences",
     "requirements", "original_sentences_processed", "processing_stats"}

ErrorKeys ==
    {"snl_text", "actors", "preprocessed_text", "sentences_count", "formatted_sentences",
     "requirements", "error"}

\* C3: the call never raises to its caller: it is always at one of its own
\* steps, never left by an exception, and what it returns is either the normal
\* result or, when a step failed, the error result, which carries the message
\* in 'error' with no requirements, no actors and sentences_count 0.
C3_Totality ==
    /\ pc \in {"called", "preprocessed", "extracted", "generating", "cleaning", "returned"}
    /\ Returned =>
          \/ DOMAIN result = NormalKeys
          \/ /\ DOMAIN result = ErrorKeys
             /\ result.error # ""
             /\ EndsWith(result.snl_text, result.error)
             /\ result.requirements = <<>>
             /\ result.actors = <<>>
             /\ result.sentences_count = 0

\* a step failed and the error result was returned
C3_Witness == Returned /\ description.type # "str" /\ "error" \in DOMAIN result

\* the closed vocabulary in ascending order of str
ActorOrder == <<"administrator", "guest", "librarian", "member", "system", "user">>

\* xs is ys with some elements left out
IsSubsequence(xs, ys) ==
    /\ \A i \in 1..Len(xs) : Occurs(xs[i], ys)
    /\ \A i, j \in 1..Len(xs) :
          i < j => \E k, l \in 1..Len(ys) : k < l /\ ys[k] = xs[i] /\ ys[l] = xs[j]

\* C4: the actor list is a subset of {system, user, administrator, librarian,
\* member, guest}, sorted ascending and free of duplicates; no other word is
\* ever reported as an actor.
C4_ActorClosure ==
    /\ ActorsKnown => IsSubsequence(actors, ActorOrder)
    /\ Succeeded => result.actors = actors

\* actors were found in a text that also names books
C4_Witness ==
    /\ ActorsKnown
    /\ Len(actors) >= 2
    /\ Contains(Lower(description.val), "books")

\* C5 as claimed: "system" is among the actors if and only if the substring
\* "system" occurs in the lowercased input.
C5_SystemIffSubstring ==
    ActorsKnown => (Occurs("system", actors) <=> Contains(Lower(description.val), "system"))

\* a whitespace-delimited word of the lowercased text spells the actor once its
\* characters other than a-z are removed
SpelledByWord(actor, text) ==
    \E word \in SplitWords(Lower(text)) : KeepLowerLetters(word) = actor

\* C5 as amended: "system" is among the actors if and only if the substring
\* "system" occurs in the lowercased input or one of its whitespace-delimited
\* words spells "system" once its characters other than a-z are removed.
C5_SystemIffSubstringOrWord ==
    ActorsKnown =>
        (Occurs("system", actors) <=>
            \/ Contains(Lower(description.val), "system")
            \/ SpelledByWord("system", description.val))

\* "system" is reported for a text that nowhere holds the substring "system"
C5_Witness ==
    /\ ActorsKnown
    /\ Occurs("system", actors)
    /\ ~Contains(Lower(description.val), "system")

\* C6: normalization is idempotent, and its steps run in the order lowercase,
\* '&' to 'and', contraction expansion, character stripping, whitespace
\* collapse: an '&' and a contraction of the input are expanded, not stripped.
C6_Idempotent ==
    pc = "preprocessed" =>
        /\ apply_preprocessing(preprocessed_text) = preprocessed_text
        /\ Contains(description.val, "&") => Contains(preprocessed_text, "and")
        /\ Contains(Lower(description.val), "can't") => Contains(preprocessed_text, "cannot")

\* a text that normalization changes: a contraction, and punctuation between words
C6_Witness ==
    /\ pc = "preprocessed"
    /\ Contains(description.val, "can't")
    /\ Contains(description.val, "? ")
    /\ preprocessed_text # description.val

PlainChars == LowerSet \cup DigitSet \cup {" ", "\t", "\n", "\r", "\f"} \cup {".", ",", "-"}

\* C7 as claimed: the normalized text holds only lowercase letters, digits,
\* whitespace, '.', ',' and '-'; every other character, the underscore
\* included, has been removed.
C7_OnlyPlainCharacters ==
    pc = "preprocessed" => CharsOf(preprocessed_text) \subseteq PlainChars

\* C7 as amended: the normalized text holds only lowercase letters, digits,
\* underscores, whitespace, '.', ',' and '-'; every other character ('?', '!',
\* ';' and apostrophes included) has been removed.
C7_OnlyWordCharacters ==
    pc = "preprocessed" => CharsOf(preprocessed_text) \subseteq PlainChars \cup {"_"}

\* an underscore of the input is still in the normalized text, its '?' is not
C7_Witness ==
    /\ pc = "preprocessed"
    /\ Contains(description.val, "? ")
    /\ Contains(preprocessed_text, "_")

PriorityOrder ==
    <<"Conditional", "When", "SystemCapability", "UserAction", "Modal", "Feature", "State",
      "Validation", "Default">>

\* the rule of the k-th template kind
RuleHolds(k, sentence, sentence_lower) ==
    CASE k = 1 -> IsConditional(sentence, sentence_lower)
      [] k = 2 -> IsWhen(sentence_lower)
      [] k = 3 -> IsSystemCapability(sentence_lower)
      [] k = 4 -> IsUserAction(sentence_lower, actors)
      [] k = 5 -> IsModal(sentence_lower)
      [] k = 6 -> IsFeature(sentence_lower)
      [] k = 7 -> IsState(sentence_lower)
      [] k = 8 -> IsValidation(sentence_lower)
      [] OTHER -> TRUE

\* C8: every sentence is rewritten by the first kind, in the order Conditional,
\* When, SystemCapability, UserAction, Modal, Feature, State, Validation,
\* Default, whose rule matches it; a sentence that contains "if" together with
\* "then" or a comma is rewritten by the Conditional template, never by the
\* Modal template, whatever modal verbs it contains.
C8_ClassifierPriority ==
    pc = "cleaning" =>
        \A i \in 1..Len(sentences) :
            LET sentence == Strip(sentences[i])
                sentence_lower == Lower(sentence)
            IN  /\ \E k \in 1..Len(PriorityOrder) :
                      /\ kinds[i] = PriorityOrder[k]
                      /\ RuleHolds(k, sentence, sentence_lower)
                      /\ \A j \in 1..(k - 1) : ~RuleHolds(j, sentence, sentence_lower)
                /\ (/\ Contains(sentence_lower, "if")
                    /\ (Contains(sentence_lower, "then") \/ Contains(sentence, ",")))
                   => /\ kinds[i] = "Conditional"
                      /\ all_requirements[i] = process_conditional_template(sentence)
                      /\ all_requirements[i] # process_modal_template(sentence)

\* a sentence with "if", a comma and a modal verb went through the Conditional template
C8_Witness ==
    /\ pc = "cleaning"
    /\ \E i \in 1..Len(sentences) :
          /\ Contains(sentences[i], "if")
          /\ Contains(sentences[i], ",")
          /\ Contains(sentences[i], "must")
          /\ kinds[i] = "Conditional"

\* C9: classification is total and single-valued: each candidate sentence is
\* given exactly one template kind and yields exactly one requirement string,
\* so on every successful call requirements_generated equals
\* total_input_sentences.
C9_OneRequirementPerSentence ==
    /\ pc \in {"generating", "cleaning", "returned"} =>
          /\ Len(kinds) = next_sentence - 1
          /\ Len(all_requirements) = next_sentence - 1
          /\ \A i \in 1..Len(kinds) : Occurs(kinds[i], PriorityOrder)
    /\ Succeeded =>
          result.processing_stats.requirements_generated
            = result.processing_stats.total_input_sentences

\* a successful call on a text that gave several candidate sentences
C9_Witness ==
    /\ Succeeded
    /\ result.processing_stats.total_input_sentences >= 3
    /\ result.processing_stats.requirements_generated >= 3

\* C10: when the normalized text is at most 3 characters long, the result has
\* an empty 'requirements' list and total_input_sentences is 0.
C10_ShortTextYieldsNothing ==
    (Succeeded /\ Len(result.preprocessed_text) <= 3) =>
        /\ result.requirements = <<>>
        /\ result.processing_stats.total_input_sentences = 0

\* the call on "Ok" returned
C10_Witness ==
    /\ Succeeded
    /\ description.val = "Ok"
    /\ result.preprocessed_text = "ok"

(***************************************************************************)
(* Repeated sentences and the scenarios.                                   *)
(***************************************************************************)
\* n copies of the sentence s, a space between them
RECURSIVE Repeated(_, _)
Repeated(s, n) == IF n <= 1 THEN s ELSE Repeated(s, n - 1) \o " " \o s

\* the sentence has a part of its own: an inner sentence end, ' then ' or ' and '
HasInnerSplit(s) ==
    \/ Contains(Lower(s), " then ")
    \/ Contains(Lower(s), " and ")
    \/ \E i \in 1..(Len(s) - 1) : CharAt(s, i) = "." /\ IsSpace(CharAt(s, i + 1))

NoRepeats(xs) == \A i, j \in 1..Len(xs) : i < j => xs[i] # xs[j]

ConditionalRequirements == {i \in 1..Len(result.requirements) : StartsWith(result.requirements[i], "If ")}

\* C13: for Scenario B's input the result holds exactly one requirement that
\* begins with "If ", of the form "If the entered information is wrong, then
\* the system shall {...}.".
C13_ScenarioB ==
    (Succeeded /\ description.val = ScenarioB) =>
        /\ Cardinality(ConditionalRequirements) = 1
        /\ \A i \in ConditionalRequirements :
              /\ StartsWith(result.requirements[i],
                            "If the entered information is wrong, then the system shall ")
              /\ EndsWith(result.requirements[i], ".")

\* the call on Scenario B's input returned, its sentence rewritten as a Conditional
C13_Witness ==
    /\ Succeeded
    /\ description.val = ScenarioB
    /\ kinds[1] = "Conditional"
    /\ ConditionalRequirements # {}

(***************************************************************************)
(* The clean-up of the generated requirements.                             *)
(***************************************************************************)
\* C14: every requirement string in the returned 'requirements' list is longer
\* than 20 characters; a generated string of 20 characters or fewer is dropped
\* and counted in requirements_generated only.
C14_OnlyLongRequirements ==
    Succeeded =>
        /\ \A i \in 1..Len(result.requirements) : Len(result.requirements[i]) > 20
        /\ \A i \in 1..Len(all_requirements) :
              Len(all_requirements[i]) <= 20
                  => ~Occurs(all_requirements[i], result.requirements)
        /\ result.processing_stats.requirements_generated = Len(all_requirements)
        /\ result.processing_stats.unique_requirements = Len(result.requirements)
        /\ result.sentences_count = Len(result.requirements)

\* a requirement of 20 characters or fewer was generated next to a longer one
C14_Witness ==
    /\ Succeeded
    /\ \E i \in 1..Len(all_requirements) :
          all_requirements[i] # "" /\ Len(all_requirements[i]) <= 20
    /\ result.requirements # <<>>
    /\ result.processing_stats.requirements_generated
         > result.processing_stats.unique_requirements

\* the positions of all_requirements that hold a string of more than 20
\* characters for the first time
FirstLongOccurrences ==
    {i \in 1..Len(all_requirements) :
        /\ Len(all_requirements[i]) > 20
        /\ \A j \in 1..(i - 1) : all_requirements[j] # all_requirements[i]}

\* C15: deduplication keeps the first occurrence and preserves order: the
\* returned 'requirements' list is the sequence of generated requirements, one
\* for each candidate sentence in order, with every later repeat and every
\* string of 20 characters or fewer removed.
C15_FirstOccurrencesInOrder ==
    Succeeded =>
        /\ Len(all_requirements) = Len(sentences)
        /\ \A i \in 1..Len(all_requirements) :
              <<all_requirements[i]>> = apply_rupp_templates_enhanced(sentences[i], actors)
        /\ Len(result.requirements) = Cardinality(FirstLongOccurrences)
        /\ \A i \in FirstLongOccurrences :
              result.requirements[Cardinality({j \in FirstLongOccurrences : j <= i})]
                = all_requirements[i]
        /\ result.snl_text = Join(result.requirements, "\n")

\* two requirements were kept in their order and the repeat of one was removed
C15_Witness ==
    /\ Succeeded
    /\ Len(result.requirements) >= 2
    /\ Len(all_requirements) > Len(result.requirements)
    /\ \E i, j \in 1..Len(all_requirements) :
          i < j /\ all_requirements[i] = all_requirements[j] /\ Len(all_requirements[i]) > 20

(***************************************************************************)
(* Calls on one instance.                                                  *)
(***************************************************************************)
\* C16: generate_snl_from_text is a function of its input alone: a call returns
\* the result (requirements, actors and processing_stats with it) that every
\* earlier call on the same instance returned for the same argument, whatever
\* calls came in between, and no call changes the attributes of the instance.
C16_SameTextSameResult ==
    /\ \A i, j \in 1..Len(earlier_calls) :
          earlier_calls[i].description = earlier_calls[j].description
              => earlier_calls[i].result = earlier_calls[j].result
    /\ \A i \in 1..Len(earlier_calls) :
          /\ earlier_calls[i].processor = processor
          /\ (Returned /\ earlier_calls[i].description = description)
                => earlier_calls[i].result = result

\* the third call returned requirements for the text of the first call, after a
\* call with another text
C16_Witness ==
    /\ Succeeded
    /\ Len(earlier_calls) = 2
    /\ earlier_calls[1].description = description
    /\ earlier_calls[2].description # description
    /\ result.requirements # <<>>

\* the positions of the requirements that begin with the given words
RequirementsLike(prefix) ==
    {i \in 1..Len(result.requirements) : StartsWith(result.requirements[i], prefix)}

\* C17: for Scenario A's input the actors are ["member", "system"] and the
\* requirements include one UserAction-shaped string, "The system shall provide
\* member with the ability to ...", and one SystemCapability-shaped string, "The
\* system shall be able to validate ...".
C17_ScenarioA ==
    (Succeeded /\ description.val = ScenarioA) =>
        /\ result.actors = <<"member", "system">>
        /\ Cardinality(RequirementsLike("The system shall provide member with the ability to ")) = 1
        /\ Cardinality(RequirementsLike("The system shall be able to validate ")) = 1

\* the call on Scenario A's input returned, its sentences rewritten as a
\* UserAction and a SystemCapability
C17_Witness ==
    /\ Succeeded
    /\ description.val = ScenarioA
    /\ kinds = <<"UserAction", "SystemCapability">>
    /\ Len(result.requirements) = 2

(***************************************************************************)
(* The candidate sentences of extract_sentences_comprehensive.             *)
(***************************************************************************)
ExtractReturned == pc = "extract_returned"

\* the sentences of the primary split that are longer than 3 characters
PrimarySentences(text) == StrippedLongParts(SplitSentences(text))

\* the candidates in the order they are appended to enhanced_sentences
EmittedCandidates(text) ==
    LET primary == PrimarySentences(text)
    IN  Flatten([i \in 1..Len(primary) |-> EnhancedSentences(primary[i])])

FirstPosition(x, xs) == Min({i \in 1..Len(xs) : xs[i] = x})

\* what the final filter lets through
NotNoise(x) ==
    /\ Len(x) > 3
    /\ ~IsDigitStr(x)
    /\ HasAlpha(x)
    /\ \A k \in 1..Len(skip_phrases) : ~Contains(Lower(x), skip_phrases[k])

\* C18: the list returned by extract_sentences_comprehensive has no duplicate
\* strings, keeps the candidates in first-seen order, and holds no item that is
\* 3 characters long or shorter, purely numeric, without an alphabetic
\* character, or that contains one of the noise phrases.
C18_DedupAndFilter ==
    ExtractReturned =>
        LET emitted == EmittedCandidates(description.val)
        IN  /\ NoRepeats(sentences)
            /\ \A i \in 1..Len(sentences) : Occurs(sentences[i], emitted) /\ NotNoise(sentences[i])
            /\ \A i, j \in 1..Len(sentences) :
                  i < j => FirstPosition(sentences[i], emitted) < FirstPosition(sentences[j], emitted)
            /\ \A k \in 1..Len(emitted) : NotNoise(emitted[k]) => Occurs(emitted[k], sentences)

\* candidates were repeated, some were noise, and some were returned
C18_Witness ==
    /\ ExtractReturned
    /\ ~NoRepeats(EmittedCandidates(description.val))
    /\ \E k \in 1..Len(EmittedCandidates(description.val)) :
          Contains(EmittedCandidates(description.val)[k], "return date")
    /\ Len(sentences) >= 2

\* the parts that the secondary splits make of a primary sentence
SplitParts(sentence) == SemicolonSplits(sentence) \o AndSplits(sentence) \o ThenSplits(sentence)

PrioritySubject(text) ==
    LET priority == <<"system", "member", "user", "librarian", "administrator", "guest">>
        found == {k \in 1..Len(priority) : Contains(text, priority[k])}
    IN  IF found = {} THEN "" ELSE priority[Min(found)]

\* the candidate that the compound split is to make of the i-th part
ExpectedAndPart(and_parts, i) ==
    LET part == Strip(and_parts[i])
        subject == PrioritySubject(Lower(and_parts[1]))
    IN  IF /\ i > 1
           /\ subject # ""
           /\ ~StartsWith(Lower(part), "the ")
           /\ ~StartsWith(Lower(part), "a ")
           /\ ~StartsWith(Lower(part), "an ")
        THEN "The " \o subject \o " " \o part
        ELSE part

\* C20: in the compound ' and ' split the carried subject is the first keyword
\* of the priority list system, member, user, librarian, administrator, guest
\* that occurs in the part before the first ' and '; it is put before a later
\* part exactly when a subject was found and the part does not start with
\* "the ", "a " or "an ", and the first part is never prefixed.
C20_CarriedSubject ==
    ExtractReturned =>
        LET primary == PrimarySentences(description.val)
        IN  \A i \in 1..Len(primary) :
                (/\ Contains(Lower(primary[i]), " and ")
                 /\ \E v \in 1..Len(action_verbs) : Contains(Lower(primary[i]), action_verbs[v]))
                => LET and_parts == SplitOn(primary[i], " and ")
                   IN  \A k \in 1..Len(and_parts) :
                           (Len(Strip(and_parts[k])) > 3 /\ NotNoise(ExpectedAndPart(and_parts, k)))
                               => Occurs(ExpectedAndPart(and_parts, k), sentences)

\* a first part that names member before system, a later part that got the
\* subject and a later part that starts with an article
C20_Witness ==
    /\ ExtractReturned
    /\ Occurs("The member of the system clicks the button", sentences)
    /\ Occurs("The system enters details", sentences)
    /\ Occurs("the page opens.", sentences)
    /\ Occurs("The user returns it.", sentences)

(***************************************************************************)
(* The template methods, on the sentence apply_rupp_templates_enhanced was *)
(* called with.                                                            *)
(***************************************************************************)
TemplatesReturned == pc = "templates_returned"

\* the sentence as the chain sees it
TheSentence == Strip(sentences[1])

\* the sentence took the branch and the branch appended its requirement
Rewritten(kind) == TemplatesReturned /\ kinds = <<kind>> /\ Len(all_requirements) = 1

\* C21: a sentence classified Conditional is split at " then " if that
\* delimiter is present and otherwise at the first ",", and is emitted as
\* "If {condition}, then the system shall {consequence}." (or with "respond
\* appropriately"), also when "then" occurs only inside another word and the
\* split is to be taken at the comma.
C21_SplitAtThenOrComma ==
    (/\ TemplatesReturned
     /\ kinds = <<"Conditional">>
     /\ (Contains(Lower(TheSentence), " then ") \/ Contains(TheSentence, ",")))
            => /\ Len(all_requirements) = 1
               /\ StartsWith(all_requirements[1], "If ")
               /\ Contains(all_requirements[1], ", then the system shall ")
               /\ EndsWith(all_requirements[1], ".")

\* the left part of the split of a Conditional sentence, in lower case
LeftOfSplit(sentence) ==
    IF Contains(Lower(sentence), " then ")
    THEN SplitOn(Lower(sentence), " then ")[1]
    ELSE Lower(SplitOn(sentence, ",")[1])

\* the left part with only its leading "if" stripped
ConditionOf(sentence) ==
    LET left == LeftOfSplit(sentence)
    IN  Strip(IF StartsWith(left, "if") THEN DropFrom(left, 2) ELSE left)

\* C22: in a Conditional requirement the {condition} is the left part of the
\* split with only its leading "if" stripped; every other character of the
\* left part, the letters "if" inside later words included, is preserved.
C22_OnlyLeadingIfStripped ==
    (Rewritten("Conditional") /\ StartsWith(all_requirements[1], "If "))
        => StartsWith(all_requirements[1],
                      "If " \o ConditionOf(TheSentence) \o ", then the system shall ")

\* the modal verbs process_modal_template knows
ModalVerbs == <<"should", "must", "can", "will", "shall", "may", "could", "would">>

\* the position of the modal verb that occurs earliest in the text, and that verb
EarliestModalAt(text) ==
    Min({Find(text, ModalVerbs[k]) : k \in {j \in 1..Len(ModalVerbs) : Contains(text, ModalVerbs[j])}})

EarliestModal(text) ==
    ModalVerbs[CHOOSE k \in 1..Len(ModalVerbs) :
                  Contains(text, ModalVerbs[k]) /\ Find(text, ModalVerbs[k]) = EarliestModalAt(text)]

\* C23: a sentence classified Modal is emitted as "The system shall
\* {remainder}." where {remainder} is the text after the modal verb at the
\* earliest position of the sentence, also when the sentence contains several
\* different modal verbs.
C23_RemainderAfterEarliestModal ==
    (TemplatesReturned /\ kinds = <<"Modal">>) =>
        LET lower == Lower(TheSentence)
            after == EarliestModalAt(lower) - 1 + Len(EarliestModal(lower))
        IN  all_requirements
              = <<"The system shall " \o Strip(DropFrom(TheSentence, after)) \o ".">>

\* C24: when a rewrite step extracts an empty fragment (condition,
\* consequence, object, action or modal remainder) a generic phrase takes its
\* place: one requirement is emitted, and none of its slots is empty.
C24_NoEmptySlot ==
    TemplatesReturned =>
        /\ Len(all_requirements) = 1
        /\ ~StartsWith(all_requirements[1], "If ,")
        /\ ~Contains(all_requirements[1], " .")

\* the sentence in lower case without its leading "the <actor>"
CleanSentence == Strip(StripLeadingActor(Strip(Lower(TheSentence))))

\* the positions in the lookup of the keys that the clean sentence contains
KeysFound == {k \in 1..Len(capability_verbs) : Contains(CleanSentence, capability_verbs[k][1])}

\* C25 as claimed: every sentence classified SystemCapability is emitted as
\* "The system shall be able to {verb} {object}." with {verb} a base verb of
\* the lookup (the object being "the required information" when it is empty).
C25_AlwaysThroughLookup ==
    (TemplatesReturned /\ kinds = <<"SystemCapability">>) =>
        /\ Len(all_requirements) = 1
        /\ \E k \in 1..Len(capability_verbs) :
              StartsWith(all_requirements[1],
                         "The system shall be able to " \o capability_verbs[k][2] \o " ")

\* C25 as amended: a sentence classified SystemCapability is emitted with the
\* base verb of the first key of the lookup that it contains, followed by the
\* object or, when nothing follows the key, by "the required information";
\* a sentence that contains no key of the lookup (one classified by
\* calculate, generate or select alone) is emitted as "The system shall be
\* able to {sentence without its leading actor}.".
C25_LookupOrGeneral ==
    (TemplatesReturned /\ kinds = <<"SystemCapability">>) =>
        /\ Len(all_requirements) = 1
        /\ IF KeysFound = {}
           THEN all_requirements[1] = "The system shall be able to " \o CleanSentence \o "."
           ELSE LET key == capability_verbs[Min(KeysFound)]
                    rest == Strip(DropFrom(CleanSentence,
                                           Find(CleanSentence, key[1]) - 1 + Len(key[1])))
                IN  /\ StartsWith(all_requirements[1],
                                  "The system shall be able to " \o key[2] \o " ")
                    /\ EndsWith(all_requirements[1], ".")
                    /\ rest = "" => all_requirements[1]
                                      = "The system shall be able to " \o key[2]
                                          \o " the required information."

\* a sentence classified by 'calculate', which the lookup does not hold
C25_Witness ==
    /\ Rewritten("SystemCapability")
    /\ KeysFound = {}
    /\ Contains(CleanSentence, "calculate")
    /\ all_requirements[1] = "The system shall be able to calculates credentials."

(***************************************************************************)
(* The simplified API.                                                     *)
(***************************************************************************)
Responded == pc = "responded"

\* the text of the request is empty or whitespace only
BlankText ==
    LET text == GetOr(request_data.text, "")
    IN  text.type = "str" /\ Strip(text.val) = ""

\* C26: process_requirements answers a request whose text is empty or
\* whitespace-only with HTTP status 400 ("Text is required") and stores no
\* case study for it.
C26_BlankTextIsBadRequest ==
    /\ (Responded /\ BlankText)
          => response.status = 400 /\ response.detail = "Text is required"
    /\ \A record \in storage.case_studies : Strip(record.original_text) # ""

(***************************************************************************)
(* The MemoryStorage instance.                                             *)
(***************************************************************************)
\* the case studies that no more than 99 others were stored after
MostRecentlyStored ==
    {r \in memory_storage.case_studies :
        Cardinality({q \in memory_storage.case_studies : q.timestamp > r.timestamp}) < 100}

\* C28: after any sequence of store_case_study calls,
\* statistics['processing_history'] holds at most 100 entries, and they are
\* the entries of the most recently stored case studies, in storing order.
C28_HistoryKeepsLast100 ==
    LET history == memory_storage.statistics.processing_history
    IN  /\ Len(history) <= 100
        /\ Len(history) = Cardinality(MostRecentlyStored)
        /\ \A i \in 1..Len(history) :
              \E r \in MostRecentlyStored :
                  /\ history[i].case_id = r.id
                  /\ history[i].timestamp = r.timestamp
                  /\ history[i].title = r.title
        /\ \A i \in 1..(Len(history) - 1) : history[i].timestamp < history[i + 1].timestamp

\* the case studies whose 'comparison' let the statistics update run to its end
WithStatistics == {r \in memory_storage.case_studies : r.comparison = "dict"}

\* the case study a history entry was made of
StoredFor(entry) ==
    [id |-> entry.case_id, timestamp |-> entry.timestamp, title |-> entry.title,
     comparison |-> "dict", metrics |-> [accuracy |-> entry.accuracy, f1_score |-> entry.f1_score]]

\* C28, amended: the history holds at most 100 entries, and they are the
\* entries of the most recently stored case studies among those whose
\* comparison is a dict, in storing order; a case study stored with another
\* comparison is counted and held but has no entry.
C28_HistoryKeepsLast100WithStatistics ==
    LET history == memory_storage.statistics.processing_history
        stored == Cardinality(WithStatistics)
    IN  /\ Len(history) <= 100
        /\ Len(history) = IF stored > 100 THEN 100 ELSE stored
        /\ \A i \in 1..Len(history) : StoredFor(history[i]) \in WithStatistics
        /\ \A i \in 1..(Len(history) - 1) : history[i].timestamp < history[i + 1].timestamp
        /\ history # <<>> =>
              Cardinality({r \in WithStatistics : r.timestamp >= history[1].timestamp})
                  = Len(history)

\* 102 case studies were stored, the first of them with None as comparison,
\* and the entry of the second is gone
C28_Witness ==
    /\ Cardinality(memory_storage.case_studies) = 102
    /\ memory_storage.statistics.total_processed = 102
    /\ \E r \in memory_storage.case_studies : r.comparison # "dict"
    /\ Len(memory_storage.statistics.processing_history) = 100
    /\ memory_storage.statistics.processing_history[1].case_id = 3

\* the calls of the given method that returned
ReturnedCalls(calls, method) ==
    {i \in 1..Len(calls) : calls[i].method = method /\ ~calls[i].raised}

\* the store_case_study calls that returned since the construction or, when
\* there was one, since the last clear_all_data call
StoresSinceClear ==
    LET clears == ReturnedCalls(earlier_calls, "clear_all_data")
    IN  {i \in ReturnedCalls(earlier_calls, "store_case_study") : \A c \in clears : c < i}

\* C30: after any sequence of store_case_study, clear_all_data and
\* load_from_files calls, statistics['total_processed'] equals the number of
\* case studies held in case_studies.
C30_TotalIsNumberHeld ==
    memory_storage.statistics.total_processed = Cardinality(memory_storage.case_studies)

\* C30, amended: total_processed is the number of store_case_study calls that
\* returned since the construction or the last clear_all_data call, and it is
\* the number of case studies held as long as load_from_files was not called.
C30_TotalCountsStores ==
    /\ memory_storage.statistics.total_processed = Cardinality(StoresSinceClear)
    /\ ReturnedCalls(earlier_calls, "load_from_files") = {} =>
          memory_storage.statistics.total_processed = Cardinality(memory_storage.case_studies)

\* a case study was stored, load_from_files replaced case_studies, and the
\* count differs from the number held
C30_Witness ==
    /\ ReturnedCalls(earlier_calls, "load_from_files") # {}
    /\ memory_storage.statistics.total_processed >= 1
    /\ memory_storage.statistics.total_processed # Cardinality(memory_storage.case_studies)

(***************************************************************************)
(* The Default template in the pipeline.                                   *)
(***************************************************************************)
\* C29: for every input text, no requirement returned by
\* generate_snl_from_text begins with "The system shall support the
\* requirement:": a sentence that contains a non-system actor of the actor
\* list is taken by the UserAction rule or an earlier rule before Default.
C29_DefaultNeverSupports ==
    /\ \A i \in 1..Len(all_requirements) :
          ~StartsWith(all_requirements[i], "The system shall support the requirement:")
    /\ Succeeded =>
          \A i \in 1..Len(result.requirements) :
              ~StartsWith(result.requirements[i], "The system shall support the requirement:")

\* the call returned, the actor list holds a non-system actor, a sentence
\* took the Default branch and its requirement was returned
C29_Witness ==
    /\ Succeeded
    /\ \E i \in 1..Len(actors) : actors[i] # "system"
    /\ \E i \in 1..Len(kinds) : kinds[i] = "Default"
    /\ \E i \in 1..Len(result.requirements) :
          StartsWith(result.requirements[i], "The system shall be able to ")

(***************************************************************************)
(* validate_plantuml_syntax.                                               *)
(***************************************************************************)
\* C27: when an attempt finds errors but could apply no automatic fix, no
\* further attempt is made: the loop does not retry, and retry_count stays at
\* the number of that attempt instead of running up to max_retries.
C27_NoRetryWithoutFix ==
    pc \in {"validation_loop", "validation_done", "validation_returned"} =>
        \A i \in 1..Len(validation.attempts) :
            validation.attempts[i].errors # <<>> /\ ~validation.attempts[i].fixed =>
                /\ Len(validation.attempts) = i
                /\ validation.result.retry_count = i

====
